---- MODULE Spec2Model ----
(***************************************************************************)
(* Match scoring, skill-gap analysis, ranking and roadmap building of the  *)
(* career-development application: Job.calculateMatchScore and             *)
(* Job.getMissingSkills (the Job model), the /jobs/recommendations route,  *)
(* and aiService.js (recommendJobs, analyzeSkillGaps, buildBeginnerRoadmap,*)
(* buildStarterGoals).                                                     *)
(*                                                                         *)
(* Conventions.                                                            *)
(*  - A JavaScript string that the code lower-cases or searches is a tuple *)
(*    of one-character strings; other strings are TLA+ strings.            *)
(*  - A JavaScript number that may be NaN or infinite is a record          *)
(*    [k, n, d]: k = "fin" is the rational n/d in lowest terms (d > 0),    *)
(*    k = "nan" is NaN, k = "inf" is +Infinity (n = 1) or -Infinity        *)
(*    (n = -1).  Arithmetic is exact where the code uses IEEE doubles.     *)
(*  - A Date is a whole number of days; the source counts milliseconds     *)
(*    (1 day = 24*60*60*1000 ms, 1 year = 365 days).                       *)
(*  - Null stands for undefined / null / an absent field.                  *)
(***************************************************************************)
EXTENDS Integers, Sequences, FiniteSets, TLC

VARIABLES
    profile,      \* the user document / resumeData a call is given
    job,          \* the Job document whose methods are called
    dbJobs,       \* the Job documents Job.find() gave the route, in query order
    preferences,  \* recommendJobs' preferences argument
    options,      \* recommendCourses' options argument
    targetRole,   \* analyzeSkillGaps' / the roadmap builders' targetRole
    gapReport,    \* the gap report handed to the roadmap builders
    courses,      \* the ranked course list handed to buildBeginnerRoadmap
    now,          \* the clock: new Date()
    catalog,      \* aiService.js' module-level arrays DUMMY_JOBS and DUMMY_COURSES
    inflight,     \* the async calls that were invoked concurrently, in invocation order
    courseDocument, \* the Course document whose methods are called
    db,           \* the stored documents the courses and certifications routes work on
    requests,     \* the HTTP requests being handled, each with its position and locals
    call,         \* the operation that returned last ("none" before any)
    ret,          \* what it returned
    locals,       \* the values of its local constants when it returned
    prev          \* [call, ret] of the invocation before it

vars == <<profile, job, dbJobs, preferences, options, targetRole, gapReport, courses,
          now, catalog, inflight, courseDocument, db, requests, call, ret, locals, prev>>

\* what the calls of the recommendation engine and of the models leave alone
inputs == <<profile, job, dbJobs, preferences, options, targetRole, gapReport, courses,
            courseDocument, db, requests>>

Null == "null"

----------------------------------------------------------------------------
(* Strings as character tuples                                             *)

UpperChars == <<"A","B","C","D","E","F","G","H","I","J","K","L","M",
                "N","O","P","Q","R","S","T","U","V","W","X","Y","Z">>

LowerChars == <<"a","b","c","d","e","f","g","h","i","j","k","l","m",
                "n","o","p","q","r","s","t","u","v","w","x","y","z">>

\* the lower-case letter of each upper-case letter
LowerOf ==
    [c \in {UpperChars[i] : i \in 1..Len(UpperChars)} |->
        LowerChars[CHOOSE i \in 1..Len(UpperChars) : UpperChars[i] = c]]

\* One character of String.prototype.toLowerCase
LowerChar(c) == IF c \in DOMAIN LowerOf THEN LowerOf[c] ELSE c

\* the array with the elements f[1], ..., f[Len(f)]
Array(f) == f \o <<>>

\* String.prototype.toLowerCase
ToLowerCase(s) == Array([i \in 1..Len(s) |-> LowerChar(s[i])])

\* String.prototype.includes: sub occurs in s as a contiguous substring
StrIncludes(s, sub) ==
    \E i \in 0..(Len(s) - Len(sub)) :
        \A j \in 1..Len(sub) : s[i + j] = sub[j]

\* Array.prototype.includes
ArrIncludes(arr, x) == \E i \in 1..Len(arr) : arr[i] = x

\* Array.prototype.filter
Filter(arr, Keep(_)) == SelectSeq(arr, Keep)

\* Array.prototype.slice(from, to), 0-based, to exclusive, clipped to the array;
\* a negative to counts from the end
Slice(arr, from, to) ==
    LET end == IF to < 0 THEN (IF Len(arr) + to > 0 THEN Len(arr) + to ELSE 0) ELSE to
        hi == IF end < Len(arr) THEN end ELSE Len(arr)
    IN  IF from >= hi THEN <<>> ELSE Array([i \in 1..(hi - from) |-> arr[from + i]])

\* All sequences over S of length at most n
SeqUpTo(S, n) == UNION {[1..k -> S] : k \in 0..n}

----------------------------------------------------------------------------
(* JavaScript numbers                                                      *)

Abs(x) == IF x < 0 THEN -x ELSE x

RECURSIVE Gcd(_, _)
Gcd(a, b) == IF b = 0 THEN a ELSE Gcd(b, a % b)

NaN == [k |-> "nan", n |-> 0, d |-> 1]
PosInf == [k |-> "inf", n |-> 1, d |-> 1]
NegInf == [k |-> "inf", n |-> -1, d |-> 1]

\* The rational n/d (d # 0) in lowest terms with a positive denominator
Fin(n, d) ==
    LET g == Gcd(Abs(n), Abs(d))
        s == IF d < 0 THEN -1 ELSE 1
    IN  [k |-> "fin", n |-> (s * n) \div g, d |-> (s * d) \div g]

Num(i) == Fin(i, 1)

IsNaN(x) == x.k = "nan"
IsFinite(x) == x.k = "fin"
Sign(x) == IF x.n > 0 THEN 1 ELSE IF x.n < 0 THEN -1 ELSE 0

\* a < b on numbers that are not NaN
NumLess(a, b) ==
    CASE a.k = "fin" /\ b.k = "fin" -> a.n * b.d < b.n * a.d
      [] a.k = "inf" /\ b.k = "inf" -> a.n < b.n
      [] a.k = "inf" -> a.n < 0
      [] OTHER -> b.n > 0

\* The relational operators: every comparison with NaN is false
JsLt(a, b) == ~IsNaN(a) /\ ~IsNaN(b) /\ NumLess(a, b)
JsGe(a, b) == ~IsNaN(a) /\ ~IsNaN(b) /\ ~NumLess(a, b)

\* a / b
JsDiv(a, b) ==
    CASE IsNaN(a) \/ IsNaN(b) -> NaN
      [] a.k = "inf" /\ b.k = "inf" -> NaN
      [] a.k = "inf" -> IF Sign(b) < 0 THEN (IF a.n > 0 THEN NegInf ELSE PosInf) ELSE a
      [] b.k = "inf" -> Num(0)
      [] b.n = 0 -> IF a.n = 0 THEN NaN ELSE IF a.n > 0 THEN PosInf ELSE NegInf
      [] OTHER -> Fin(a.n * b.d, a.d * b.n)

\* a * b
JsMul(a, b) ==
    CASE IsNaN(a) \/ IsNaN(b) -> NaN
      [] a.k = "inf" \/ b.k = "inf" ->
            IF Sign(a) * Sign(b) = 0 THEN NaN
            ELSE IF Sign(a) * Sign(b) > 0 THEN PosInf ELSE NegInf
      [] OTHER -> Fin(a.n * b.n, a.d * b.d)

\* a + b
JsAdd(a, b) ==
    CASE IsNaN(a) \/ IsNaN(b) -> NaN
      [] a.k = "inf" /\ b.k = "inf" -> IF a.n = b.n THEN a ELSE NaN
      [] a.k = "inf" -> a
      [] b.k = "inf" -> b
      [] OTHER -> Fin(a.n * b.d + b.n * a.d, a.d * b.d)

\* Math.min(a, b): NaN when either argument is NaN
MathMin(a, b) ==
    IF IsNaN(a) \/ IsNaN(b) THEN NaN
    ELSE IF NumLess(b, a) THEN b ELSE a

\* Math.floor(x)
MathFloor(x) == IF IsFinite(x) THEN Num(x.n \div x.d) ELSE x

\* Math.round(x): the nearest integer, ties towards +Infinity
MathRound(x) ==
    IF IsFinite(x) THEN Num((2 * x.n + x.d) \div (2 * x.d)) ELSE x


----------------------------------------------------------------------------
(* String literals of the source and of the inputs, as character tuples    *)

S_react == <<"r","e","a","c","t">>
S_React == <<"R","e","a","c","t">>
S_Java == <<"J","a","v","a">>
S_JavaScript == <<"J","a","v","a","S","c","r","i","p","t">>
S_python == <<"p","y","t","h","o","n">>
S_Python == <<"P","y","t","h","o","n">>
S_aws == <<"a","w","s">>
S_AWS == <<"A","W","S">>
S_css == <<"c","s","s">>
S_CSS == <<"C","S","S">>
S_TypeScript == <<"T","y","p","e","S","c","r","i","p","t">>
S_NodeJs == <<"N","o","d","e",".","j","s">>
S_MongoDB == <<"M","o","n","g","o","D","B">>
S_Docker == <<"D","o","c","k","e","r">>
S_Kubernetes == <<"K","u","b","e","r","n","e","t","e","s">>
S_DatabaseDesign == <<"D","a","t","a","b","a","s","e"," ","D","e","s","i","g","n">>
S_APIDevelopment == <<"A","P","I"," ","D","e","v","e","l","o","p","m","e","n","t">>
S_Austin == <<"A","u","s","t","i","n">>
S_austin == <<"a","u","s","t","i","n">>
S_Boston == <<"B","o","s","t","o","n">>
S_remote == <<"r","e","m","o","t","e">>
S_phd == <<"p","h","d">>
S_doctorate == <<"d","o","c","t","o","r","a","t","e">>
S_master == <<"m","a","s","t","e","r">>
S_bachelor == <<"b","a","c","h","e","l","o","r">>
S_associate == <<"a","s","s","o","c","i","a","t","e">>
S_PhD == <<"P","h","D">>
S_Masters == <<"M","a","s","t","e","r","s">>
S_Bachelor == <<"B","a","c","h","e","l","o","r">>
S_Diploma == <<"D","i","p","l","o","m","a">>
S_SanFranciscoCA == <<"S","a","n"," ","F","r","a","n","c","i","s","c","o",","," ","C","A">>
S_Remote == <<"R","e","m","o","t","e">>
S_AustinTX == <<"A","u","s","t","i","n",","," ","T","X">>
S_Salary120 == <<"$","1","2","0",",","0","0","0"," ","-"," ","$","1","5","0",",","0","0","0">>
S_Salary100 == <<"$","1","0","0",",","0","0","0"," ","-"," ","$","1","3","0",",","0","0","0">>
S_Salary110 == <<"$","1","1","0",",","0","0","0"," ","-"," ","$","1","4","0",",","0","0","0">>


----------------------------------------------------------------------------
(* JavaScript values that may be undefined                                 *)

Undefined == [k |-> "undefined", n |-> 0, d |-> 1]

\* ToNumber: undefined converts to NaN
ToNumber(v) == IF v.k = "undefined" THEN NaN ELSE v

\* ToBoolean of a number or undefined: undefined, NaN and 0 are falsy
Truthy(v) == v.k = "inf" \/ (v.k = "fin" /\ v.n # 0)

\* a - b
JsSub(a, b) == JsAdd(a, JsMul(Num(-1), b))

\* a >= b and a / b with operands that may be undefined
JsGeAny(a, b) == JsGe(ToNumber(a), ToNumber(b))
JsDivAny(a, b) == JsDiv(ToNumber(a), ToNumber(b))

----------------------------------------------------------------------------
(* The Job model: calculateMatchScore and getMissingSkills                 *)

\* weights (calculateMatchScore)
WeightSkills == Fin(35, 100)
WeightExperience == Fin(25, 100)
WeightLocation == Fin(15, 100)
WeightSalary == Fin(15, 100)
WeightEducation == Fin(10, 100)

DaysPerYear == 365

\* (mutant) the names compared as written, without toLowerCase()
UserSkillNames_AsWritten(skills) == Array([i \in 1..Len(skills) |-> skills[i].name])

\* userProfile.skills.map(s => s.name.toLowerCase())
UserSkillNames(skills) == Array([i \in 1..Len(skills) |-> ToLowerCase(skills[i].name)])

\* this.requiredSkills.filter(skill => userSkillNames.includes(skill.name.toLowerCase())).length
RequiredSkillMatches(j, p) ==
    LET userSkillNames == UserSkillNames(p.skills)
    IN  Len(Filter(j.requiredSkills,
                   LAMBDA skill : ArrIncludes(userSkillNames, ToLowerCase(skill.name))))

\* (mutant) the matches divided by the number of the profile's skills
SkillsScore_PerProfileSkill(j, p) ==
    MathMin(JsDiv(Num(RequiredSkillMatches(j, p)), Num(Len(p.skills))), Num(1))

\* const skillsScore = Math.min(requiredSkillMatches / this.requiredSkills.length, 1)
SkillsScore(j, p) ==
    MathMin(JsDiv(Num(RequiredSkillMatches(j, p)), Num(Len(j.requiredSkills))), Num(1))

\* userProfile.experience.reduce(...): the summed tenure in years at time t
RECURSIVE UserYears(_, _)
UserYears(experience, t) ==
    IF experience = <<>> THEN Num(0)
    ELSE LET exp == experience[Len(experience)]
             start == exp.startDate
             end == IF exp.endDate.k # "undefined" THEN exp.endDate ELSE Num(t)
         IN  JsAdd(UserYears(SubSeq(experience, 1, Len(experience) - 1), t),
                   JsDiv(JsSub(end, start), Num(DaysPerYear)))

\* const experienceScore = Math.min(userYears / this.experienceRequirements.minimumYears, 1)
ExperienceScore(j, p, t) ==
    MathMin(JsDivAny(UserYears(p.experience, t), j.experienceRequirements.minimumYears),
            Num(1))

\* (mutant) the job's isRemote flag not consulted
LocationScore_RemoteIgnored(j, p) ==
    IF p.location.present
    THEN (IF p.location.city = j.location.city THEN Num(1) ELSE Fin(3, 10))
    ELSE Num(1)

\* locationScore: 1 unless the job is on site and the profile has a location
LocationScore(j, p) ==
    IF ~j.location.isRemote /\ p.location.present
    THEN (IF p.location.city = j.location.city THEN Num(1) ELSE Fin(3, 10))
    ELSE Num(1)

\* salaryScore: 0.8 unless the profile has a salary range and the job a minimum
SalaryScore(j, p) ==
    IF p.desiredSalaryRange.present /\ Truthy(j.salary.min)
    THEN LET userMin == p.desiredSalaryRange.min
             jobMin == j.salary.min
         IN  IF JsGeAny(jobMin, userMin) THEN Num(1) ELSE JsDivAny(jobMin, userMin)
    ELSE Fin(8, 10)

\* (mutant) the degree text inspected as written, without toLowerCase()
DegreeLevel_AsWritten(ed) ==
    LET degree == ed.degree
    IN  IF StrIncludes(degree, S_phd) \/ StrIncludes(degree, S_doctorate) THEN 5
        ELSE IF StrIncludes(degree, S_master) THEN 4
        ELSE IF StrIncludes(degree, S_bachelor) THEN 3
        ELSE IF StrIncludes(degree, S_associate) THEN 2
        ELSE 1

\* the rank the degree text of one education entry maps to
DegreeLevel(ed) ==
    LET degree == ToLowerCase(ed.degree)
    IN  IF StrIncludes(degree, S_phd) \/ StrIncludes(degree, S_doctorate) THEN 5
        ELSE IF StrIncludes(degree, S_master) THEN 4
        ELSE IF StrIncludes(degree, S_bachelor) THEN 3
        ELSE IF StrIncludes(degree, S_associate) THEN 2
        ELSE 1

\* Math.max(...userProfile.education.map(...), 0)
UserEducationLevel(education) ==
    LET levels == {DegreeLevel(education[i]) : i \in 1..Len(education)} \cup {0}
    IN  CHOOSE m \in levels : \A l \in levels : l <= m

\* educationLevels[this.educationRequirements.minimumDegree] || 0
RequiredEducationLevel(minimumDegree) ==
    CASE minimumDegree = "none" -> 0
      [] minimumDegree = "high_school" -> 1
      [] minimumDegree = "associate" -> 2
      [] minimumDegree = "bachelor" -> 3
      [] minimumDegree = "master" -> 4
      [] minimumDegree = "doctorate" -> 5
      [] OTHER -> 0

\* const educationScore = userEducationLevel >= requiredEducationLevel ? 1 : 0.5
EducationScore(j, p) ==
    IF UserEducationLevel(p.education) >=
           RequiredEducationLevel(j.educationRequirements.minimumDegree)
    THEN Num(1) ELSE Fin(1, 2)

\* the weighted total of the five subscores
TotalScore(sk, ex, lo, sa, ed) ==
    JsAdd(JsAdd(JsAdd(JsAdd(JsMul(sk, WeightSkills),
                            JsMul(ex, WeightExperience)),
                      JsMul(lo, WeightLocation)),
                JsMul(sa, WeightSalary)),
          JsMul(ed, WeightEducation))

\* the local constants of jobSchema.methods.calculateMatchScore
MatchLocals(j, p, t) ==
    [skillsScore |-> SkillsScore(j, p),
     experienceScore |-> ExperienceScore(j, p, t),
     locationScore |-> LocationScore(j, p),
     salaryScore |-> SalaryScore(j, p),
     educationScore |-> EducationScore(j, p)]

\* The subscore tuples <<skills, experience, location, salary, education>> at
\* which the weighted total times 100 is k + 1/2 as a real number and the
\* double-precision evaluation of the expression (left to right, with the
\* weights 0.35, 0.15 and 0.10 not exactly representable) ends just below it,
\* e.g. 21.499999999999996 for <<0, 0, 0.3, 0.8, 0.5>>.  Complete for the
\* subscores skills 0, 1/4, 1/3, 1/2, 2/3, 3/4, 1; experience 0, 1/4, 1/2,
\* 3/4, 1; location 3/10, 1; salary 1/4, 5/12, 1/2, 3/4, 4/5, 1; education
\* 1/2, 1.
TiesRoundedDown ==
    {
     <<Fin(0, 1), Fin(0, 1), Fin(3, 10), Fin(4, 5), Fin(1, 2)>>,
     <<Fin(0, 1), Fin(0, 1), Fin(1, 1), Fin(1, 2), Fin(1, 2)>>,
     <<Fin(0, 1), Fin(0, 1), Fin(1, 1), Fin(1, 2), Fin(1, 1)>>,
     <<Fin(0, 1), Fin(1, 4), Fin(1, 1), Fin(3, 4), Fin(1, 2)>>,
     <<Fin(0, 1), Fin(1, 4), Fin(1, 1), Fin(3, 4), Fin(1, 1)>>,
     <<Fin(0, 1), Fin(3, 4), Fin(3, 10), Fin(3, 4), Fin(1, 2)>>,
     <<Fin(0, 1), Fin(3, 4), Fin(3, 10), Fin(3, 4), Fin(1, 1)>>,
     <<Fin(0, 1), Fin(1, 1), Fin(3, 10), Fin(1, 1), Fin(1, 2)>>,
     <<Fin(0, 1), Fin(1, 1), Fin(3, 10), Fin(1, 1), Fin(1, 1)>>,
     <<Fin(1, 4), Fin(0, 1), Fin(1, 1), Fin(1, 4), Fin(1, 2)>>,
     <<Fin(1, 4), Fin(1, 4), Fin(3, 10), Fin(1, 1), Fin(1, 2)>>,
     <<Fin(1, 4), Fin(1, 4), Fin(3, 10), Fin(1, 1), Fin(1, 1)>>,
     <<Fin(1, 4), Fin(1, 2), Fin(1, 1), Fin(3, 4), Fin(1, 1)>>,
     <<Fin(1, 2), Fin(0, 1), Fin(1, 1), Fin(4, 5), Fin(1, 2)>>,
     <<Fin(1, 2), Fin(0, 1), Fin(1, 1), Fin(4, 5), Fin(1, 1)>>,
     <<Fin(1, 2), Fin(0, 1), Fin(1, 1), Fin(1, 1), Fin(1, 1)>>,
     <<Fin(1, 2), Fin(1, 4), Fin(3, 10), Fin(5, 12), Fin(1, 2)>>,
     <<Fin(1, 2), Fin(1, 4), Fin(3, 10), Fin(5, 12), Fin(1, 1)>>,
     <<Fin(1, 2), Fin(1, 4), Fin(3, 10), Fin(3, 4), Fin(1, 2)>>,
     <<Fin(1, 2), Fin(1, 4), Fin(1, 1), Fin(1, 4), Fin(1, 2)>>,
     <<Fin(1, 2), Fin(1, 4), Fin(1, 1), Fin(1, 4), Fin(1, 1)>>,
     <<Fin(1, 2), Fin(1, 2), Fin(3, 10), Fin(4, 5), Fin(1, 1)>>,
     <<Fin(1, 2), Fin(1, 2), Fin(1, 1), Fin(1, 2), Fin(1, 2)>>,
     <<Fin(1, 2), Fin(1, 2), Fin(1, 1), Fin(1, 2), Fin(1, 1)>>,
     <<Fin(1, 2), Fin(3, 4), Fin(3, 10), Fin(1, 4), Fin(1, 2)>>,
     <<Fin(1, 2), Fin(3, 4), Fin(3, 10), Fin(1, 4), Fin(1, 1)>>,
     <<Fin(1, 2), Fin(1, 1), Fin(3, 10), Fin(1, 2), Fin(1, 1)>>,
     <<Fin(3, 4), Fin(0, 1), Fin(3, 10), Fin(1, 4), Fin(1, 2)>>,
     <<Fin(3, 4), Fin(0, 1), Fin(3, 10), Fin(1, 4), Fin(1, 1)>>,
     <<Fin(3, 4), Fin(0, 1), Fin(1, 1), Fin(5, 12), Fin(1, 1)>>,
     <<Fin(3, 4), Fin(0, 1), Fin(1, 1), Fin(3, 4), Fin(1, 2)>>,
     <<Fin(3, 4), Fin(0, 1), Fin(1, 1), Fin(3, 4), Fin(1, 1)>>,
     <<Fin(3, 4), Fin(1, 4), Fin(3, 10), Fin(1, 2), Fin(1, 2)>>,
     <<Fin(3, 4), Fin(1, 4), Fin(3, 10), Fin(1, 2), Fin(1, 1)>>,
     <<Fin(3, 4), Fin(1, 2), Fin(3, 10), Fin(5, 12), Fin(1, 2)>>,
     <<Fin(3, 4), Fin(1, 2), Fin(3, 10), Fin(3, 4), Fin(1, 1)>>,
     <<Fin(3, 4), Fin(3, 4), Fin(3, 10), Fin(1, 1), Fin(1, 1)>>,
     <<Fin(3, 4), Fin(3, 4), Fin(1, 1), Fin(1, 2), Fin(1, 1)>>,
     <<Fin(3, 4), Fin(1, 1), Fin(1, 1), Fin(3, 4), Fin(1, 1)>>,
     <<Fin(1, 1), Fin(0, 1), Fin(3, 10), Fin(4, 5), Fin(1, 2)>>,
     <<Fin(1, 1), Fin(0, 1), Fin(3, 10), Fin(4, 5), Fin(1, 1)>>,
     <<Fin(1, 1), Fin(0, 1), Fin(3, 10), Fin(1, 1), Fin(1, 1)>>,
     <<Fin(1, 1), Fin(1, 4), Fin(3, 10), Fin(1, 4), Fin(1, 2)>>
    }

\* Math.round(totalScore * 100) for the five subscores
RoundedScore(sk, ex, lo, sa, ed) ==
    LET x == JsMul(TotalScore(sk, ex, lo, sa, ed), Num(100))
    IN  IF <<sk, ex, lo, sa, ed>> \in TiesRoundedDown THEN MathFloor(x) ELSE MathRound(x)

\* jobSchema.methods.calculateMatchScore: return Math.round(totalScore * 100)
CalcMatchScore(j, p, t) ==
    LET l == MatchLocals(j, p, t)
    IN  RoundedScore(l.skillsScore, l.experienceScore, l.locationScore,
                     l.salaryScore, l.educationScore)

\* jobSchema.methods.getMissingSkills
MissingSkills(j, p) ==
    LET userSkillNames == UserSkillNames(p.skills)
        missing == Filter(j.requiredSkills,
                      LAMBDA skill : ~ArrIncludes(userSkillNames, ToLowerCase(skill.name)))
    IN  Array([i \in 1..Len(missing) |-> missing[i].name])


----------------------------------------------------------------------------
(* aiService.js: the job catalog, calculateJobMatchScore, findMissingSkills *)

\* Math.max(a, b)
MathMax(a, b) ==
    IF IsNaN(a) \/ IsNaN(b) THEN NaN
    ELSE IF NumLess(a, b) THEN b ELSE a

DUMMY_JOBS ==
    << [title |-> "Senior Frontend Developer", company |-> "TechCorp Inc.",
        location |-> S_SanFranciscoCA, salary |-> S_Salary120, matchScore |-> Num(92),
        requiredSkills |-> <<S_React, S_JavaScript, S_TypeScript>>],
       [title |-> "Full Stack Engineer", company |-> "Innovation Labs",
        location |-> S_Remote, salary |-> S_Salary100, matchScore |-> Num(88),
        requiredSkills |-> <<S_NodeJs, S_React, S_MongoDB>>],
       [title |-> "DevOps Engineer", company |-> "CloudTech Solutions",
        location |-> S_AustinTX, salary |-> S_Salary110, matchScore |-> Num(85),
        requiredSkills |-> <<S_AWS, S_Docker, S_Kubernetes>>] >>

\* function calculateJobMatchScore(job, userSkills, userExperience)
CalculateJobMatchScore(j, userSkills, userExperience) ==
    LET matchingSkills ==
            Filter(j.requiredSkills,
                   LAMBDA required :
                       \E i \in 1..Len(userSkills) :
                           ToLowerCase(userSkills[i].name) = ToLowerCase(required))
        skillPart == JsMul(JsDiv(Num(Len(matchingSkills)), Num(Len(j.requiredSkills))),
                           Num(30))
        yearsOfExperience == Len(userExperience) * 2
        score == JsAdd(JsAdd(Num(60), skillPart),
                       IF yearsOfExperience >= 3 THEN Num(10) ELSE Num(0))
    IN  MathMin(MathFloor(score), Num(100))

\* function findMissingSkills(requiredSkills, userSkills)
FindMissingSkills(requiredSkills, userSkills) ==
    LET userSkillNames == UserSkillNames(userSkills)
    IN  Filter(requiredSkills,
               LAMBDA required : ~ArrIncludes(userSkillNames, ToLowerCase(required)))

\* Math.random() is in [0, 1): the draws the model samples, in tenths
RandomSamples == {Fin(0, 10), Fin(9, 10)}

\* Math.floor(Math.random() * span + base) for the draw r
RandomInt(r, span, base) == MathFloor(JsAdd(JsMul(r, Num(span)), Num(base))).n

\* function generateMatchReasons: the first reason carries a random count
GenerateMatchReasons(r) ==
    << [count |-> RandomInt(r, 5, 3), text |-> " of your skills match requirements"],
       [count |-> 0, text |-> "Your experience level aligns with job requirements"],
       [count |-> 0, text |-> "Company culture matches your preferences"] >>

DigitChars == <<"0","1","2","3","4","5","6","7","8","9">>
DigitValueOf ==
    [c \in {DigitChars[i] : i \in 1..Len(DigitChars)} |->
        (CHOOSE i \in 1..Len(DigitChars) : DigitChars[i] = c) - 1]
IsDigit(c) == c \in DOMAIN DigitValueOf
DigitValue(c) == DigitValueOf[c]

\* the end (exclusive) of the longest run of digits of s that starts at i
RECURSIVE DigitsEnd(_, _)
DigitsEnd(s, i) == IF i <= Len(s) /\ IsDigit(s[i]) THEN DigitsEnd(s, i + 1) ELSE i

\* parseInt of a non-empty tuple of digits
RECURSIVE ParseDigits(_)
ParseDigits(ds) ==
    IF ds = <<>> THEN 0
    ELSE 10 * ParseDigits(SubSeq(ds, 1, Len(ds) - 1)) + DigitValue(ds[Len(ds)])

\* parseInt(m?.[1] + (m?.[2] || '')) * 1000 with m = salary.match(/\$(\d+),?(\d+)?/)
JobSalaryMin(salary) ==
    LET starts == {i \in 1..(Len(salary) - 1) : salary[i] = "$" /\ IsDigit(salary[i + 1])}
    IN  IF starts = {} THEN NaN
        ELSE LET i == CHOOSE x \in starts : \A y \in starts : x <= y
                 e1 == DigitsEnd(salary, i + 1)
                 b2 == IF e1 <= Len(salary) /\ salary[e1] = "," THEN e1 + 1 ELSE e1
                 e2 == DigitsEnd(salary, b2)
                 digits == SubSeq(salary, i + 1, e1 - 1) \o SubSeq(salary, b2, e2 - 1)
             IN  JsMul(Num(ParseDigits(digits)), Num(1000))

\* (mutant) the preferred location searched for as written, not lower-cased
AdjustedMatchScore_CaseSensitive(j, userSkills, userExperience, prefs) ==
    LET base == CalculateJobMatchScore(j, userSkills, userExperience)
        afterLocation ==
            IF prefs.location # <<>> /\ ~StrIncludes(ToLowerCase(j.location), S_remote)
            THEN (IF StrIncludes(j.location, prefs.location)
                  THEN base ELSE MathMax(JsSub(base, Num(15)), Num(0)))
            ELSE base
    IN  IF Truthy(prefs.salaryMin) /\ JsLt(JobSalaryMin(j.salary), prefs.salaryMin)
        THEN MathMax(JsSub(afterLocation, Num(10)), Num(0))
        ELSE afterLocation

\* the score recommendJobs gives one job: the base score, then the penalties
AdjustedMatchScore(j, userSkills, userExperience, prefs) ==
    LET base == CalculateJobMatchScore(j, userSkills, userExperience)
        afterLocation ==
            IF prefs.location # <<>> /\ ~StrIncludes(ToLowerCase(j.location), S_remote)
            THEN (IF StrIncludes(ToLowerCase(j.location), ToLowerCase(prefs.location))
                  THEN base ELSE MathMax(JsSub(base, Num(15)), Num(0)))
            ELSE base
    IN  IF Truthy(prefs.salaryMin) /\ JsLt(JobSalaryMin(j.salary), prefs.salaryMin)
        THEN MathMax(JsSub(afterLocation, Num(10)), Num(0))
        ELSE afterLocation

\* the object recommendJobs maps one job to; r is the draw of its match reasons.
\* (applicationTips, salaryInsights, companyInsights, applicationDeadline and
\* postedDate are further output-only fields.)
RecommendedJob(j, p, prefs, r) ==
    [title |-> j.title, company |-> j.company, location |-> j.location,
     salary |-> j.salary, requiredSkills |-> j.requiredSkills,
     matchScore |-> AdjustedMatchScore(j, p.skills, p.experience, prefs),
     matchReasons |-> GenerateMatchReasons(r),
     missingSkills |-> FindMissingSkills(j.requiredSkills, p.skills)]

----------------------------------------------------------------------------
(* Array.prototype.sort((a, b) => b.matchScore - a.matchScore)             *)

\* the comparator's verdict on elements a, b: a NaN difference counts as +0
CompareDesc(a, b) ==
    LET v == JsSub(b.matchScore, a.matchScore)
    IN  IF IsNaN(v) THEN 0 ELSE Sign(v)

\* a consistent comparator orders the elements in classes (ECMAScript, sort)
ConsistentComparator(arr) ==
    LET I == 1..Len(arr)
        c == Array([i \in I |-> Array([j \in I |-> CompareDesc(arr[i], arr[j])])])
    IN  \A i, j, k \in I :
            /\ (c[i][j] = 0 /\ c[j][k] = 0) => c[i][k] = 0
            /\ (c[i][j] < 0 /\ c[j][k] < 0) => c[i][k] < 0
            /\ (c[i][j] > 0 /\ c[j][k] > 0) => c[i][k] > 0
            /\ (c[i][j] = 0) => (c[i][k] = c[j][k] /\ c[k][i] = c[k][j])

\* x put into a list sorted by the comparator, after its equals (stable)
RECURSIVE InsertStable(_, _)
InsertStable(sorted, x) ==
    IF sorted = <<>> THEN <<x>>
    ELSE IF CompareDesc(x, Head(sorted)) < 0 THEN <<x>> \o sorted
         ELSE <<Head(sorted)>> \o InsertStable(Tail(sorted), x)

RECURSIVE StableSort(_)
StableSort(arr) ==
    IF arr = <<>> THEN <<>>
    ELSE InsertStable(StableSort(SubSeq(arr, 1, Len(arr) - 1)), arr[Len(arr)])

\* what sort may leave in the array: the stable order under a consistent
\* comparator, an implementation-defined order (some permutation) otherwise
SortOutcomes(arr) ==
    IF ConsistentComparator(arr) THEN {StableSort(arr)}
    ELSE {Array([i \in 1..Len(arr) |-> arr[p[i]]]) : p \in Permutations(1..Len(arr))}

----------------------------------------------------------------------------
(* aiService.js: the course catalog and recommendCourses                   *)

S_AdvancedReactDevelopment ==
    <<"A","d","v","a","n","c","e","d"," ","R","e","a","c","t"," ",
      "D","e","v","e","l","o","p","m","e","n","t">>
S_AWSCloudPractitioner ==
    <<"A","W","S"," ","C","l","o","u","d"," ","P","r","a","c","t","i","t","i","o","n","e","r">>
S_PythonForDataScience ==
    <<"P","y","t","h","o","n"," ","f","o","r"," ","D","a","t","a"," ",
      "S","c","i","e","n","c","e">>

DUMMY_COURSES ==
    << [id |-> "1", title |-> S_AdvancedReactDevelopment, provider |-> "Coursera",
        duration |-> 40, rating |-> Fin(47, 10), relevanceScore |-> Fin(9, 10)],
       [id |-> "2", title |-> S_AWSCloudPractitioner, provider |-> "edX",
        duration |-> 25, rating |-> Fin(45, 10), relevanceScore |-> Fin(8, 10)],
       [id |-> "3", title |-> S_PythonForDataScience, provider |-> "Udemy",
        duration |-> 35, rating |-> Fin(46, 10), relevanceScore |-> Fin(85, 100)] >>

\* const courseSkills = ['react', 'aws', 'python', 'javascript', 'node.js']
CourseSkills ==
    <<S_react, S_aws, S_python,
      <<"j","a","v","a","s","c","r","i","p","t">>, <<"n","o","d","e",".","j","s">>>>

\* courseSkills.some(skill => userSkillNames.includes(skill) || title includes skill)
HasRelevantSkills(course, userSkillNames) ==
    \E i \in 1..Len(CourseSkills) :
        \/ ArrIncludes(userSkillNames, CourseSkills[i])
        \/ StrIncludes(ToLowerCase(course.title), CourseSkills[i])

\* parseFloat(x.toFixed(2)): x to the nearest hundredth, ties upwards
ToFixed2(x) == IF IsFinite(x) THEN Fin((200 * x.n + x.d) \div (2 * x.d), 100) ELSE x

\* the draws of Math.random() sampled for a course's base score
CourseRandomSamples == {Fin(3, 10), Fin(9, 10)}

\* the score of a course for the draw r: Math.random() * 0.4 + 0.6, raised by
\* 0.2 (at most to 1.0) when the course has relevant skills, to two decimals
BoostedScore(hasRelevantSkills, r) ==
    LET base == JsAdd(JsMul(r, Fin(4, 10)), Fin(6, 10))
    IN  ToFixed2(IF hasRelevantSkills
                 THEN MathMin(JsAdd(base, Fin(2, 10)), Num(1))
                 ELSE base)

\* the relevanceScore recommendCourses gives one course for the draw r
RelevanceScore(course, userSkillNames, r) ==
    BoostedScore(HasRelevantSkills(course, userSkillNames), r)

\* the object recommendCourses maps one course to.  (reason, estimatedImpact,
\* difficulty and skillsGained are further output-only fields.)
RecommendedCourse(course, userSkillNames, r) ==
    [id |-> course.id, title |-> course.title, provider |-> course.provider,
     duration |-> course.duration, rating |-> course.rating,
     relevanceScore |-> RelevanceScore(course, userSkillNames, r),
     timeToComplete |-> <<course.duration, " hours">>]

\* .sort((a, b) => b.relevanceScore - a.relevanceScore): the sort above with
\* relevanceScore as the key
SortByRelevance(arr) ==
    LET keyed == Array([i \in 1..Len(arr) |->
                            [matchScore |-> arr[i].relevanceScore, item |-> arr[i]]])
    IN  {Array([i \in 1..Len(s) |-> s[i].item]) : s \in SortOutcomes(keyed)}

DefaultLimit == 10

\* const recommendations = DUMMY_COURSES.map(...).sort(...): the full ranked
\* lists one invocation may build, for every draw of the courses' base scores
RankedCourses(catalogCourses, userSkills) ==
    LET userSkillNames == UserSkillNames(userSkills)
        r0 == CHOOSE r \in CourseRandomSamples : TRUE
        mapped == Array([i \in 1..Len(catalogCourses) |->
                            RecommendedCourse(catalogCourses[i], userSkillNames, r0)])
        relevant == Array([i \in 1..Len(catalogCourses) |->
                              HasRelevantSkills(catalogCourses[i], userSkillNames)])
    IN  UNION {SortByRelevance(
                   Array([i \in 1..Len(catalogCourses) |->
                       [mapped[i] EXCEPT
                           !.relevanceScore = BoostedScore(relevant[i], draws[i])]])) :
               draws \in [1..Len(catalogCourses) -> CourseRandomSamples]}

\* options.limit || 10
CourseLimit(opts) == IF Truthy(opts.limit) THEN opts.limit.n ELSE DefaultLimit

\* (mutant) the catalog's own objects rescored and the catalog itself sorted
RecommendCoursesCall_InPlace(catalogCourses, userSkills, opts) ==
    {[out |-> Slice(sorted, 0, CourseLimit(opts)), recommendations |-> sorted,
      catalog |-> sorted] :
        sorted \in RankedCourses(catalogCourses, userSkills)}

\* what one invocation of recommendCourses(userSkills, careerPath, options) may
\* leave behind: the array it returns and the catalog as the call leaves it.
\* DUMMY_COURSES.map builds a new array of new objects, sort reorders that
\* array, slice copies the head of it; the catalog is only read.
RecommendCoursesCall(catalogCourses, userSkills, opts) ==
    {[out |-> Slice(sorted, 0, CourseLimit(opts)), recommendations |-> sorted,
      catalog |-> catalogCourses] :
        sorted \in RankedCourses(catalogCourses, userSkills)}

----------------------------------------------------------------------------
(* aiService.js: analyzeSkillGaps                                          *)

RoleSkill(name, level, priority) == [name |-> name, level |-> level, priority |-> priority]

FrontendDeveloperSkills ==
    << RoleSkill(S_React, "advanced", "high"),
       RoleSkill(S_JavaScript, "advanced", "high"),
       RoleSkill(S_CSS, "intermediate", "medium"),
       RoleSkill(S_TypeScript, "intermediate", "medium") >>

FullStackDeveloperSkills ==
    << RoleSkill(S_React, "intermediate", "high"),
       RoleSkill(S_NodeJs, "intermediate", "high"),
       RoleSkill(S_DatabaseDesign, "intermediate", "medium"),
       RoleSkill(S_APIDevelopment, "intermediate", "high") >>

\* (mutant) a role without a template gets an empty template
GetRequiredSkillsForRole_KnownOnly(role) ==
    CASE role = "Frontend Developer" -> FrontendDeveloperSkills
      [] role = "Full Stack Developer" -> FullStackDeveloperSkills
      [] OTHER -> <<>>

\* function getRequiredSkillsForRole(role): roleSkills[role] || roleSkills['Frontend Developer']
GetRequiredSkillsForRole(role) ==
    CASE role = "Frontend Developer" -> FrontendDeveloperSkills
      [] role = "Full Stack Developer" -> FullStackDeveloperSkills
      [] OTHER -> FrontendDeveloperSkills

\* const gaps = requiredSkills.filter(required => !currentSkillNames.includes(...))
SkillGaps(currentSkills, role) ==
    LET currentSkillNames == UserSkillNames(currentSkills)
    IN  Filter(GetRequiredSkillsForRole(role),
               LAMBDA required :
                   ~ArrIncludes(currentSkillNames, ToLowerCase(required.name)))

\* (mutant) every template entry counted as a strength
ExistingStrengths_All(currentSkills, role) == GetRequiredSkillsForRole(role)

\* const strengths = requiredSkills.filter(required => currentSkillNames.includes(...))
ExistingStrengths(currentSkills, role) ==
    LET currentSkillNames == UserSkillNames(currentSkills)
    IN  Filter(GetRequiredSkillsForRole(role),
               LAMBDA required :
                   ArrIncludes(currentSkillNames, ToLowerCase(required.name)))

\* (mutant) 10 points per gap instead of 15
OverallReadiness_TenPerGap(gaps) ==
    IF 100 - (Len(gaps) * 10) > 0 THEN 100 - (Len(gaps) * 10) ELSE 0

\* overallReadiness: Math.max(100 - (gaps.length * 15), 0)
OverallReadiness(gaps) == IF 100 - (Len(gaps) * 15) > 0 THEN 100 - (Len(gaps) * 15) ELSE 0

\* function generateLearningPath(skillGaps); draws[i] is the draw of step i
GenerateLearningPath(gaps, draws) ==
    Array([i \in 1..Len(gaps) |->
            [step |-> i, skill |-> gaps[i].name,
             estimatedWeeks |-> RandomInt(draws[i], 4, 2),
             priority |-> gaps[i].priority]])

\* what analyzeSkillGaps(currentSkills, targetRole) returns
SkillGapAnalysis(currentSkills, role, draws) ==
    LET gaps == SkillGaps(currentSkills, role)
    IN  [targetRole |-> role,
         overallReadiness |-> OverallReadiness(gaps),
         skillGaps |-> gaps,
         existingStrengths |-> ExistingStrengths(currentSkills, role),
         recommendedLearningPath |-> GenerateLearningPath(gaps, draws),
         estimatedTimeToReadiness |-> <<Len(gaps) * 2, Len(gaps) * 3>>,
         prioritySkills |-> Slice(gaps, 0, 3)]

----------------------------------------------------------------------------
(* aiService.js: buildBeginnerRoadmap and buildStarterGoals                *)

\* an array-valued field that may be absent
Absent == [present |-> FALSE, items |-> <<>>]
Present(items) == [present |-> TRUE, items |-> items]

\* arr.map(s => s.name)
NamesOf(arr) == Array([i \in 1..Len(arr) |-> arr[i].name])

\* (mutant) the second phase starting one course early
BuildBeginnerRoadmap_CursorBehind(role, gaps, courseList) ==
    << [phase |-> "Foundation (Weeks 1-4)",
        focus |-> "Core concepts and tooling",
        skills |-> IF gaps.prioritySkills.present
                   THEN NamesOf(Slice(gaps.prioritySkills.items, 0, 2))
                   ELSE <<"Version Control", "Problem Solving">>,
        recommendedCourses |-> Slice(courseList, 0, 2)],
       [phase |-> "Projects (Weeks 5-8)",
        focus |-> "Apply skills with real projects",
        skills |-> IF gaps.skillGaps.present
                   THEN NamesOf(Slice(gaps.skillGaps.items, 0, 3))
                   ELSE <<"APIs", "Testing", "Deployment">>,
        recommendedCourses |-> Slice(courseList, 1, 3)],
       [phase |-> "Job Readiness (Weeks 9-12)",
        focus |-> "Resume, interview prep, and polishing",
        skills |-> <<"Communication", "Problem Solving", "System Design (basic)">>,
        recommendedCourses |-> Slice(courseList, 4, 6)] >>

\* (mutant) an empty list of gaps replaced by the stock skills of the phase
BuildBeginnerRoadmap_StockWhenEmpty(role, gaps, courseList) ==
    << [phase |-> "Foundation (Weeks 1-4)",
        focus |-> "Core concepts and tooling",
        skills |-> IF gaps.prioritySkills.present /\ gaps.prioritySkills.items # <<>>
                   THEN NamesOf(Slice(gaps.prioritySkills.items, 0, 2))
                   ELSE <<"Version Control", "Problem Solving">>,
        recommendedCourses |-> Slice(courseList, 0, 2)],
       [phase |-> "Projects (Weeks 5-8)",
        focus |-> "Apply skills with real projects",
        skills |-> IF gaps.skillGaps.present /\ gaps.skillGaps.items # <<>>
                   THEN NamesOf(Slice(gaps.skillGaps.items, 0, 3))
                   ELSE <<"APIs", "Testing", "Deployment">>,
        recommendedCourses |-> Slice(courseList, 2, 4)],
       [phase |-> "Job Readiness (Weeks 9-12)",
        focus |-> "Resume, interview prep, and polishing",
        skills |-> <<"Communication", "Problem Solving", "System Design (basic)">>,
        recommendedCourses |-> Slice(courseList, 4, 6)] >>

\* function buildBeginnerRoadmap(targetRole, gaps, courses)
BuildBeginnerRoadmap(role, gaps, courseList) ==
    << [phase |-> "Foundation (Weeks 1-4)",
        focus |-> "Core concepts and tooling",
        skills |-> IF gaps.prioritySkills.present
                   THEN NamesOf(Slice(gaps.prioritySkills.items, 0, 2))
                   ELSE <<"Version Control", "Problem Solving">>,
        recommendedCourses |-> Slice(courseList, 0, 2)],
       [phase |-> "Projects (Weeks 5-8)",
        focus |-> "Apply skills with real projects",
        skills |-> IF gaps.skillGaps.present
                   THEN NamesOf(Slice(gaps.skillGaps.items, 0, 3))
                   ELSE <<"APIs", "Testing", "Deployment">>,
        recommendedCourses |-> Slice(courseList, 2, 4)],
       [phase |-> "Job Readiness (Weeks 9-12)",
        focus |-> "Resume, interview prep, and polishing",
        skills |-> <<"Communication", "Problem Solving", "System Design (basic)">>,
        recommendedCourses |-> Slice(courseList, 4, 6)] >>

\* (mutant) the offset subtracted
InDays_Before(t, d) == t - d

\* const inDays = d => new Date(now.getTime() + d * 24 * 60 * 60 * 1000), in days
InDays(t, d) == t + d

\* function buildStarterGoals(targetRole, gaps), called at time t
BuildStarterGoals(role, gaps, t) ==
    << [id |-> <<"goal", t, 1>>,
        title |-> <<"Complete a beginner course for ", role>>,
        category |-> "learning",
        targetDate |-> InDays(t, 21),
        priority |-> "high",
        status |-> "not_started",
        progress |-> 0,
        milestones |-> <<"Enroll", "Finish 50%", "Complete and summarize">>,
        relatedSkills |-> Slice(NamesOf(IF gaps.prioritySkills.present
                                        THEN gaps.prioritySkills.items ELSE <<>>), 0, 3)],
       [id |-> <<"goal", t, 2>>,
        title |-> <<"Build and deploy one small project", "">>,
        category |-> "project",
        targetDate |-> InDays(t, 30),
        priority |-> "medium",
        status |-> "not_started",
        progress |-> 0,
        milestones |-> <<"Plan", "Build", "Deploy", "Iterate">>,
        relatedSkills |-> Slice(NamesOf(IF gaps.skillGaps.present
                                        THEN gaps.skillGaps.items ELSE <<>>), 0, 3)] >>

----------------------------------------------------------------------------
(* aiService.js: generateBeginnerCareerGuide                               *)

\* ToBoolean of a string that may be unset: undefined and '' are falsy
TruthyString(s) == s # Null /\ s # ""

\* function inferTargetRoleFromInterests(user): the first keyword the
\* lower-cased headline contains decides; null when it contains none
InferTargetRoleFromInterests(user) ==
    LET headline == ToLowerCase(user.headline)
        has(keyword) == StrIncludes(headline, keyword)
    IN  IF has(<<"d","a","t","a">>) THEN "Data Analyst"
        ELSE IF has(<<"d","e","v","o","p","s">>) THEN "DevOps Engineer"
        ELSE IF has(<<"b","a","c","k","e","n","d">>) THEN "Backend Developer"
        ELSE IF has(<<"f","u","l","l"," ","s","t","a","c","k">>)
                    \/ has(<<"f","u","l","l","-","s","t","a","c","k">>)
             THEN "Full Stack Developer"
        ELSE IF has(<<"a","i">>) \/ has(<<"m","l">>) THEN "Machine Learning Engineer"
        ELSE Null

\* user?.targetJobTitle || inferTargetRoleFromInterests(user) || 'Frontend Developer'
GuideTargetRole(user) ==
    IF TruthyString(user.targetJobTitle) THEN user.targetJobTitle
    ELSE IF TruthyString(InferTargetRoleFromInterests(user))
         THEN InferTargetRoleFromInterests(user)
         ELSE "Frontend Developer"

\* the limit generateBeginnerCareerGuide asks recommendCourses for
GuideCourseLimit == 6

\* what generateBeginnerCareerGuide(user) may return at time t: the analysis of
\* the user's skills for the role, the recommended courses, the roadmap and
\* the goals built from them.  (gettingStarted, starterProjects, faq and
\* nextSteps are literals of the source that depend on the role's name only.)
BeginnerCareerGuides(user, catalogCourses, t) ==
    LET role == GuideTargetRole(user)
        experienceLevel == IF TruthyString(user.experienceLevel)
                           THEN user.experienceLevel ELSE "entry"
    IN  UNION {{[meta |-> [targetRole |-> role, experienceLevel |-> experienceLevel],
                 overview |-> [overallReadiness |-> gaps.overallReadiness,
                               estimatedTimeToReadiness |-> gaps.estimatedTimeToReadiness,
                               prioritySkills |-> gaps.prioritySkills],
                 roadmap |-> BuildBeginnerRoadmap(role,
                                 [skillGaps |-> Present(gaps.skillGaps),
                                  prioritySkills |-> Present(gaps.prioritySkills)],
                                 c.out),
                 recommendedCourses |-> c.out,
                 skillGapAnalysis |-> gaps,
                 recommendedGoals |-> BuildStarterGoals(role,
                                 [skillGaps |-> Present(gaps.skillGaps),
                                  prioritySkills |-> Present(gaps.prioritySkills)], t)] :
                c \in RecommendCoursesCall(catalogCourses, user.skills,
                                           [limit |-> Num(GuideCourseLimit)])} :
               gaps \in {SkillGapAnalysis(user.skills, role, draws) :
                            draws \in [1..Len(SkillGaps(user.skills, role)) -> RandomSamples]}}

----------------------------------------------------------------------------
(* GET /api/jobs/recommendations/:userId                                   *)

\* the entry the route maps one Job document to, as far as it is computed from
\* the job and the user (the fields copied from aiService's answer are not)
EnhancedJob(j, user, t) ==
    [id |-> j.id,
     requiredSkills |-> Slice(j.requiredSkills, 0, 5),
     matchScore |-> CalcMatchScore(j, user, t),
     missingSkills |-> MissingSkills(j, user)]

\* const enhancedJobs = jobs.map(job => ...)
EnhancedJobs(jobList, user, t) ==
    Array([i \in 1..Len(jobList) |-> EnhancedJob(jobList[i], user, t)])

----------------------------------------------------------------------------
(* Documents                                                               *)

Skill(name) == [name |-> name]
Experience(start, end) == [startDate |-> start, endDate |-> end]
Education(degree) == [degree |-> degree]
NoLocation == [present |-> FALSE, city |-> <<>>]
\* the location of a user document that has no city: the nested path is an object
NoCity == [present |-> TRUE, city |-> <<>>]
City(c) == [present |-> TRUE, city |-> c]
NoSalaryRange == [present |-> FALSE, min |-> Undefined]
SalaryRange(min) == [present |-> TRUE, min |-> min]

\* a user document (the User model), as far as the engine reads it
Profile(skills, experience, education, location, range) ==
    [skills |-> skills, experience |-> experience, education |-> education,
     location |-> location, desiredSalaryRange |-> range]

\* a Job document (the Job model), as far as the engine reads it
JobDoc(id, required, minimumYears, city, isRemote, salaryMin, minimumDegree) ==
    [id |-> id,
     requiredSkills |-> required,
     experienceRequirements |-> [minimumYears |-> minimumYears],
     location |-> [city |-> city, isRemote |-> isRemote],
     salary |-> [min |-> salaryMin],
     educationRequirements |-> [minimumDegree |-> minimumDegree]]

\* the user document with the fields generateBeginnerCareerGuide reads
CareerUser(skills, targetJobTitle, headline) ==
    [skills |-> skills, experience |-> <<>>, education |-> <<>>,
     location |-> NoLocation, desiredSalaryRange |-> NoSalaryRange,
     targetJobTitle |-> targetJobTitle, headline |-> headline, experienceLevel |-> Null]

DefaultProfile == Profile(<<>>, <<>>, <<>>, NoLocation, NoSalaryRange)
DefaultJob == JobDoc("job", <<Skill(S_python)>>, Num(2), S_Austin, FALSE, Undefined, "undefined")
DefaultPreferences == [location |-> <<>>, salaryMin |-> Undefined]
DefaultOptions == [limit |-> Undefined]

\* the ids of the stored User, Course and Certification documents
UserIds == {"u1", "u2"}
CourseIds == {"c1", "c2"}
CertificationIds == {"k1", "k2"}

\* a User document as registered, a Course document as created, and the
\* place of a Certification document that was not submitted yet
NewUser == [learningProgress |-> <<>>, courseCompletions |-> 0, verifiedCertifications |-> {}]
NewCourse == [enrollmentCount |-> 0, completions |-> 0]
NoCertification == [exists |-> FALSE, verificationStatus |-> "none"]

\* the store before any enrolment and any certification
EmptyDb ==
    [users |-> [u \in UserIds |-> NewUser],
     courses |-> [c \in CourseIds |-> NewCourse],
     certifications |-> [k \in CertificationIds |-> NoCertification]]
InitialCatalog == [jobs |-> DUMMY_JOBS, courses |-> DUMMY_COURSES]
DefaultGapReport == [skillGaps |-> Present(<<>>), prioritySkills |-> Present(<<>>)]
NoPrev == [call |-> "none", ret |-> Null]
Today == 1460
MaxRequests == 2
MaxCompletions == 2
ClockSpan == 2

----------------------------------------------------------------------------
(* models/Course.js: popularityScore and calculateRecommendationScore      *)

\* a || 0 on a number or undefined
OrZero(v) == IF Truthy(v) THEN v ELSE Num(0)

\* courseSchema.virtual('popularityScore')
PopularityScore(c) ==
    LET normalizedEnrollment == MathMin(JsDivAny(c.enrollmentCount, Num(10000)), Num(1))
        normalizedRating == JsDiv(OrZero(c.rating.average), Num(5))
        normalizedCompletion == OrZero(c.aiMetrics.completionRate)
    IN  JsAdd(JsAdd(JsMul(normalizedEnrollment, Fin(4, 10)),
                    JsMul(normalizedRating, Fin(3, 10))),
              JsMul(normalizedCompletion, Fin(3, 10)))

\* the taught skills some skill of the profile names, up to case
SkillsMatch(c, userProfile) ==
    Len(Filter(c.skillsTaught,
               LAMBDA courseSkill :
                   \E i \in 1..Len(userProfile.skills) :
                       ToLowerCase(userProfile.skills[i].name) = ToLowerCase(courseSkill.name)))

\* courseSchema.methods.calculateRecommendationScore
CourseRecommendationScore(c, userProfile) ==
    LET skillsScore == JsMul(MathMin(JsDiv(Num(SkillsMatch(c, userProfile)),
                                           Num(Len(c.skillsTaught))), Num(1)),
                             Fin(4, 10))
        careerMatch == IF ArrIncludes(c.careerPaths, userProfile.targetJobTitle)
                          \/ ArrIncludes(c.jobRoles, userProfile.targetJobTitle)
                       THEN Fin(3, 10) ELSE Num(0)
        qualityScore == JsMul(JsDivAny(c.qualityScore, Num(10)), Fin(2, 10))
        popularityScore == JsMul(PopularityScore(c), Fin(1, 10))
    IN  JsAdd(JsAdd(JsAdd(skillsScore, careerMatch), qualityScore), popularityScore)

\* a Course document, as far as the two computations read it
CourseDoc(taught, paths, roles, quality, enrolled, average, completionRate) ==
    [skillsTaught |-> taught, careerPaths |-> paths, jobRoles |-> roles,
     qualityScore |-> quality, enrollmentCount |-> enrolled,
     rating |-> [average |-> average], aiMetrics |-> [completionRate |-> completionRate]]

DefaultCourse == CourseDoc(<<>>, <<>>, <<>>, Undefined, Num(0), Undefined, Undefined)

----------------------------------------------------------------------------
(* routes/courses.js: POST /:courseId/enroll/:userId.  A request runs from  *)
(* one await to the next in one turn of the event loop; between two awaits  *)
(* the other requests run.                                                  *)

\* user.learningProgress.find(progress => progress.courseId.toString() === courseId)
FindProgress(learningProgress, courseId) ==
    LET found == {i \in 1..Len(learningProgress) : learningProgress[i].courseId = courseId}
    IN  IF found = {} THEN 0 ELSE CHOOSE i \in found : \A j \in found : i <= j

\* const newProgress = { courseId, ..., status: 'not_started', progress: 0, ... }
NewProgress(courseId) == [courseId |-> courseId, status |-> "not_started", progress |-> 0]

\* user.save() after learningProgress.push(newProgress): the pushed entry is
\* written with $push, appended to the list as it is stored at that moment
SavedProgress(stored, pushed) == Append(stored, pushed)

\* what the request engine's calls and the clock are to the routes
engine == <<profile, job, dbJobs, preferences, options, targetRole, gapReport, courses,
            courseDocument, now, catalog, inflight>>
lastCall == <<call, ret, locals, prev>>

\* the request responds
Responded(i, status) ==
    requests' = [requests EXCEPT ![i].pc = "done", ![i].status = status]

\* the request moves on to its next await
Goes(i, pc) == requests' = [requests EXCEPT ![i].pc = pc]

\* a POST /:courseId/enroll/:userId arrives
ReceiveEnroll(courseId, userId) ==
    /\ Len(requests) < MaxRequests
    /\ requests' = Append(requests, [op |-> "enroll", courseId |-> courseId,
                                      userId |-> userId, pc |-> "findCourse", status |-> 0])
    /\ UNCHANGED <<engine, lastCall, db>>

\* await Course.findById(courseId) resolves
EnrollFindCourse(i) ==
    /\ requests[i].op = "enroll" /\ requests[i].pc = "findCourse"
    /\ IF requests[i].courseId \in CourseIds THEN Goes(i, "findUser") ELSE Responded(i, 404)
    /\ UNCHANGED <<engine, lastCall, db>>

\* await User.findById(userId) resolves; the request looks for an enrolment
\* in the document it was given and pushes the new entry
EnrollFindUser(i) ==
    /\ requests[i].op = "enroll" /\ requests[i].pc = "findUser"
    /\ IF requests[i].userId \notin UserIds THEN Responded(i, 404)
       ELSE IF FindProgress(db.users[requests[i].userId].learningProgress,
                            requests[i].courseId) # 0
            THEN Responded(i, 400)
            ELSE Goes(i, "save")
    /\ UNCHANGED <<engine, lastCall, db>>

\* await user.save() resolves
EnrollSave(i) ==
    /\ requests[i].op = "enroll" /\ requests[i].pc = "save"
    /\ db' = [db EXCEPT !.users[requests[i].userId].learningProgress =
                            SavedProgress(@, NewProgress(requests[i].courseId))]
    /\ Goes(i, "increment")
    /\ UNCHANGED <<engine, lastCall>>

\* await Course.findByIdAndUpdate(courseId, { $inc: { enrollmentCount: 1 } })
\* resolves and the request responds
EnrollIncrement(i) ==
    /\ requests[i].op = "enroll" /\ requests[i].pc = "increment"
    /\ db' = [db EXCEPT !.courses[requests[i].courseId].enrollmentCount = @ + 1]
    /\ Responded(i, 200)
    /\ UNCHANGED <<engine, lastCall>>

----------------------------------------------------------------------------
(* routes/courses.js: PUT /:courseId/progress/:userId                      *)

\* the user document after the handler's assignments: progress, then status
\* when the body gives one, then 'completed' and the analytics counter when
\* progress is 100
ProgressUpdated(user, i, progress, status) ==
    LET withProgress == [user EXCEPT !.learningProgress[i].progress = progress]
        withStatus == IF status # Null
                      THEN [withProgress EXCEPT !.learningProgress[i].status = status]
                      ELSE withProgress
    IN  IF progress = 100
        THEN [withStatus EXCEPT !.learningProgress[i].status = "completed",
                                !.courseCompletions = @ + 1]
        ELSE withStatus

\* the response and the store one PUT /:courseId/progress/:userId leaves
UpdateProgressOutcome(store, courseId, userId, progress, status) ==
    IF progress < 0 \/ progress > 100 THEN [status |-> 400, db |-> store]
    ELSE IF userId \notin UserIds THEN [status |-> 404, db |-> store]
    ELSE LET user == store.users[userId]
             i == FindProgress(user.learningProgress, courseId)
         IN  IF i = 0 THEN [status |-> 404, db |-> store]
             ELSE LET saved == [store EXCEPT !.users[userId] =
                                    ProgressUpdated(user, i, progress, status)]
                  IN  [status |-> 200,
                       db |-> IF progress = 100
                              THEN [saved EXCEPT !.courses[courseId].completions = @ + 1]
                              ELSE saved]

\* one PUT /:courseId/progress/:userId request, from arrival to response
UpdateProgress(courseId, userId, progress, status) ==
    /\ (progress = 100 /\ courseId \in CourseIds) =>
           db.courses[courseId].completions < MaxCompletions
    /\ LET o == UpdateProgressOutcome(db, courseId, userId, progress, status)
       IN  /\ db' = o.db
           /\ call' = "updateProgress"
           /\ ret' = [status |-> o.status]
           /\ locals' = [courseId |-> courseId, userId |-> userId, progress |-> progress]
           /\ prev' = [call |-> call, ret |-> ret]
    /\ UNCHANGED <<engine, requests>>

----------------------------------------------------------------------------
(* routes/certifications.js: POST /verify, PUT /:certificationId/status    *)
(* and POST /:certificationId/reverify.  Every certification belongs to    *)
(* the user CertificationOwner.                                            *)

CertificationOwner == "u1"

\* certification.verificationStatus = status; await certification.save()
StatusSaved(store, k, status) ==
    [store EXCEPT !.certifications[k] = [exists |-> TRUE, verificationStatus |-> status]]

\* User.findByIdAndUpdate(userId, { $addToSet: { verifiedCertifications: id } })
AddedToSet(store, k) ==
    [store EXCEPT !.users[CertificationOwner].verifiedCertifications = @ \cup {k}]

\* User.findByIdAndUpdate(userId, { $pull: { verifiedCertifications: id } })
Pulled(store, k) ==
    [store EXCEPT !.users[CertificationOwner].verifiedCertifications = @ \ {k}]

\* aiService.verifyCertification: status is 'verified' or 'failed', by Math.random()
VerificationResults == {"verified", "failed"}

\* a certification request, from arrival to response, has answered
Answered(op, k, status, store) ==
    /\ db' = store
    /\ call' = op
    /\ ret' = [status |-> status]
    /\ locals' = [certificationId |-> k]
    /\ prev' = [call |-> call, ret |-> ret]
    /\ UNCHANGED <<engine, requests>>

\* POST /verify for a certification of the owner; result is what the
\* automatic verification answers
SubmitCertification(k, result) ==
    IF db.certifications[k].exists
    THEN Answered("verify", k, 400, db)
    ELSE Answered("verify", k, 201,
                  IF result = "verified"
                  THEN AddedToSet(StatusSaved(db, k, result), k)
                  ELSE StatusSaved(db, k, result))

\* PUT /:certificationId/status with the body's status
UpdateCertificationStatus(k, status) ==
    IF status \notin {"pending", "verified", "failed"}
    THEN Answered("status", k, 400, db)
    ELSE IF ~db.certifications[k].exists
    THEN Answered("status", k, 404, db)
    ELSE Answered("status", k, 200,
                  IF status = "verified" THEN AddedToSet(StatusSaved(db, k, status), k)
                  ELSE IF status = "failed" THEN Pulled(StatusSaved(db, k, status), k)
                  ELSE StatusSaved(db, k, status))

\* POST /:certificationId/reverify; result is what the verification answers
ReverifyCertification(k, result) ==
    IF ~db.certifications[k].exists
    THEN Answered("reverify", k, 404, db)
    ELSE Answered("reverify", k, 200, StatusSaved(db, k, result))

----------------------------------------------------------------------------
(* Operations.  Each is one invocation: it reads the inputs and the clock  *)
(* and returns; none of them assigns to its arguments.                     *)

\* op returns value; its arguments are as they were (no statement of the
\* engine assigns to a field or an element of an argument)
Completed(op, value, loc) ==
    /\ call' = op
    /\ ret' = value
    /\ locals' = loc
    /\ prev' = [call |-> call, ret |-> ret]
    /\ UNCHANGED <<inputs, now, inflight>>

\* a call that does not touch the module-level arrays returns
Returned(op, value, loc) ==
    /\ Completed(op, value, loc)
    /\ UNCHANGED catalog

\* job.calculateMatchScore(user)
CalculateMatchScore ==
    /\ call = "none"
    /\ Returned("calculateMatchScore", CalcMatchScore(job, profile, now),
                MatchLocals(job, profile, now))

\* course.calculateRecommendationScore(user)
CalculateRecommendationScore ==
    /\ call = "none"
    /\ Returned("calculateRecommendationScore", CourseRecommendationScore(courseDocument, profile),
                [popularityScore |-> PopularityScore(courseDocument)])

\* job.getMissingSkills(user)
GetMissingSkills ==
    /\ call = "none"
    /\ Returned("getMissingSkills", MissingSkills(job, profile), Null)

\* a second invocation of job.calculateMatchScore(user) on the same documents
CalculateMatchScoreAgain ==
    /\ call = "calculateMatchScore"
    /\ prev.call = "none"
    /\ Returned("calculateMatchScore", CalcMatchScore(job, profile, now),
                MatchLocals(job, profile, now))

\* what one invocation of recommendJobs(resumeData, preferences) may return:
\* DUMMY_JOBS.map(...).sort(...), for every draw of the jobs' match reasons
RecommendJobsResults(catalogJobs, p, prefs) ==
    LET r0 == CHOOSE r \in RandomSamples : TRUE
        mapped == Array([i \in 1..Len(catalogJobs) |->
                            RecommendedJob(catalogJobs[i], p, prefs, r0)])
    IN  UNION {SortOutcomes(Array([i \in 1..Len(catalogJobs) |->
                    [mapped[i] EXCEPT !.matchReasons = GenerateMatchReasons(draws[i])]])) :
               draws \in [1..Len(catalogJobs) -> RandomSamples]}

\* (mutant) the catalog's own objects given the new fields and the catalog
\* itself sorted and returned
RecommendJobsCall_InPlace(catalogJobs, p, prefs) ==
    {[out |-> o, catalog |-> o] : o \in RecommendJobsResults(catalogJobs, p, prefs)}

\* what one invocation of recommendJobs may leave behind: the array it returns
\* and the catalog as the call leaves it.  DUMMY_JOBS.map builds a new array,
\* { ...job, ... } a new object per job, and sort reorders the new array.
RecommendJobsCall(catalogJobs, p, prefs) ==
    {[out |-> o, catalog |-> catalogJobs] : o \in RecommendJobsResults(catalogJobs, p, prefs)}

\* aiService.recommendJobs(resumeData, preferences)
RecommendJobs ==
    /\ call = "none"
    /\ \E c \in RecommendJobsCall(catalog.jobs, profile, preferences) :
           /\ Completed("recommendJobs", c.out, Null)
           /\ catalog' = [catalog EXCEPT !.jobs = c.catalog]

\* a second invocation of recommendJobs on the same resumeData and preferences
RecommendJobsAgain ==
    /\ call = "recommendJobs"
    /\ prev.call = "none"
    /\ \E c \in RecommendJobsCall(catalog.jobs, profile, preferences) :
           /\ Completed("recommendJobs", c.out, Null)
           /\ catalog' = [catalog EXCEPT !.jobs = c.catalog]

\* aiService.recommendCourses(user.skills, careerPath, options)
RecommendCourses ==
    /\ call = "none"
    /\ \E c \in RecommendCoursesCall(catalog.courses, profile.skills, options) :
           /\ Completed("recommendCourses", c.out, [recommendations |-> c.recommendations])
           /\ catalog' = [catalog EXCEPT !.courses = c.catalog]

\* aiService.analyzeSkillGaps(user.skills, targetRole)
AnalyzeSkillGaps ==
    /\ call = "none"
    /\ \E draws \in [1..Len(SkillGaps(profile.skills, targetRole)) -> RandomSamples] :
           Returned("analyzeSkillGaps",
                    SkillGapAnalysis(profile.skills, targetRole, draws), Null)

\* An async call is invoked: it logs, starts its timer and suspends at its
\* await; the body after the await has not run yet.
Invoke(op, p, prefs, role, opts) ==
    /\ inflight' = Append(inflight,
                          [op |-> op, profile |-> p, preferences |-> prefs,
                           targetRole |-> role, options |-> opts,
                           pc |-> "awaiting", ret |-> Null])
    /\ UNCHANGED <<inputs, now, catalog, call, ret, locals, prev>>

\* the i-th call is an invocation of op whose timer can fire
Awaiting(i, op) ==
    /\ inflight[i].op = op
    /\ inflight[i].pc = "awaiting"

\* the call's timer has fired and its body has run to its return without
\* interruption (one turn of the event loop)
Resumes(i, value) ==
    /\ inflight' = [inflight EXCEPT ![i].pc = "returned", ![i].ret = value]
    /\ UNCHANGED <<inputs, now, call, ret, locals, prev>>

\* the body of an in-flight recommendJobs
ResumeRecommendJobs ==
    \E i \in 1..Len(inflight) :
        /\ Awaiting(i, "recommendJobs")
        /\ \E c \in RecommendJobsCall(catalog.jobs, inflight[i].profile,
                                       inflight[i].preferences) :
            /\ Resumes(i, c.out)
            /\ catalog' = [catalog EXCEPT !.jobs = c.catalog]

\* the body of an in-flight recommendCourses
ResumeRecommendCourses ==
    \E i \in 1..Len(inflight) :
        /\ Awaiting(i, "recommendCourses")
        /\ \E c \in RecommendCoursesCall(catalog.courses, inflight[i].profile.skills,
                                          inflight[i].options) :
            /\ Resumes(i, c.out)
            /\ catalog' = [catalog EXCEPT !.courses = c.catalog]

\* the body of an in-flight analyzeSkillGaps
ResumeAnalyzeSkillGaps ==
    \E i \in 1..Len(inflight) :
        /\ Awaiting(i, "analyzeSkillGaps")
        /\ \E draws \in [1..Len(SkillGaps(inflight[i].profile.skills,
                                           inflight[i].targetRole)) -> RandomSamples] :
            /\ Resumes(i, SkillGapAnalysis(inflight[i].profile.skills,
                                           inflight[i].targetRole, draws))
            /\ UNCHANGED catalog

\* aiService.generateBeginnerCareerGuide(user)
GenerateBeginnerCareerGuide ==
    /\ call = "none"
    /\ \E guide \in BeginnerCareerGuides(profile, catalog.courses, now) :
           Returned("generateBeginnerCareerGuide", guide, Null)

\* buildBeginnerRoadmap(targetRole, gaps, courses)
BuildRoadmap ==
    /\ call = "none"
    /\ Returned("buildBeginnerRoadmap",
                BuildBeginnerRoadmap(targetRole, gapReport, courses), Null)

\* buildStarterGoals(targetRole, gaps)
BuildGoals ==
    /\ call = "none"
    /\ Returned("buildStarterGoals", BuildStarterGoals(targetRole, gapReport, now), Null)

\* GET /api/jobs/recommendations/:userId: score every job found, then sort
GetJobRecommendations ==
    /\ call = "none"
    /\ \E out \in SortOutcomes(EnhancedJobs(dbJobs, profile, now)) :
           Returned("getJobRecommendations", out, Null)

----------------------------------------------------------------------------
(* SpecScore: one profile and one job, every factor of the score varied    *)

ScoreSkillLists == {<<>>, <<Skill(S_Python)>>}
ScoreExperiences ==
    {<<>>,
     <<Experience(Num(0), Num(730))>>,
     <<Experience(Num(365), Undefined)>>}
ScoreEducations == {<<>>, <<Education(S_Diploma), Education(S_Masters)>>}
ScoreLocations == {NoLocation, NoCity, City(S_austin)}
ScoreSalaryRanges == {NoSalaryRange, SalaryRange(Undefined), SalaryRange(Num(100))}

ScoreRequiredLists == {<<>>, <<Skill(S_python)>>, <<Skill(S_python), Skill(S_aws)>>}
ScoreMinimumYears == {Num(0), Num(2)}
ScoreJobLocations ==
    {<<S_Austin, FALSE>>, <<S_austin, FALSE>>, <<S_Boston, TRUE>>, <<S_austin, TRUE>>}
ScoreSalaryMins == {Undefined, Num(50), Num(120)}
ScoreDegrees == {"undefined", "bachelor", "doctorate"}

\* no call has been made
InitQuiet ==
    /\ catalog = InitialCatalog
    /\ inflight = <<>>
    /\ call = "none"
    /\ ret = Null
    /\ locals = Null
    /\ prev = NoPrev

InitIdle ==
    /\ InitQuiet
    /\ courseDocument = DefaultCourse
    /\ db = EmptyDb
    /\ requests = <<>>

InitScore ==
    /\ profile \in {Profile(sk, ex, ed, lo, sr) :
                        sk \in ScoreSkillLists, ex \in ScoreExperiences,
                        ed \in ScoreEducations, lo \in ScoreLocations,
                        sr \in ScoreSalaryRanges}
    /\ job \in {JobDoc("job", rq, my, lc[1], lc[2], sm, dg) :
                        rq \in ScoreRequiredLists, my \in ScoreMinimumYears,
                        lc \in ScoreJobLocations, sm \in ScoreSalaryMins,
                        dg \in ScoreDegrees}
    /\ dbJobs = <<>>
    /\ preferences = DefaultPreferences
    /\ options = DefaultOptions
    /\ targetRole = "Frontend Developer"
    /\ gapReport = DefaultGapReport
    /\ courses = <<>>
    /\ now = Today
    /\ InitIdle

NextScore == CalculateMatchScore \/ GetMissingSkills

SpecScore == InitScore /\ [][NextScore]_vars


----------------------------------------------------------------------------
(* SpecMatch: skill names in both cases, profile against job and role      *)

MaxSkills == 2
MaxRequired == 2

MatchProfileNames == {S_react, S_Java, S_AWS, S_python}
MatchJobNames == {S_React, S_python, S_aws, S_JavaScript}
Roles == {"Frontend Developer", "Full Stack Developer", "Data Analyst"}

SkillLists(names, n) == {Array([i \in 1..Len(q) |-> Skill(q[i])]) : q \in SeqUpTo(names, n)}

InitMatch ==
    /\ \E sk \in SkillLists(MatchProfileNames, MaxSkills) :
           profile = Profile(sk, <<>>, <<>>, NoLocation, NoSalaryRange)
    /\ \/ /\ \E rq \in SkillLists(MatchJobNames, MaxRequired) :
                 job = JobDoc("job", rq, Num(2), S_Austin, FALSE, Undefined, "undefined")
          /\ targetRole = "Frontend Developer"
       \/ /\ job = DefaultJob
          /\ targetRole \in Roles
    /\ dbJobs = <<>>
    /\ preferences = DefaultPreferences
    /\ options = DefaultOptions
    /\ gapReport = DefaultGapReport
    /\ courses = <<>>
    /\ now = Today
    /\ InitIdle

NextMatch == CalculateMatchScore \/ GetMissingSkills \/ RecommendJobs \/ AnalyzeSkillGaps

SpecMatch == InitMatch /\ [][NextMatch]_vars

----------------------------------------------------------------------------
(* SpecRank: the route's catalog and recommendJobs, scored and sorted      *)

MaxCatalog == 4

RankProfile ==
    Profile(<<Skill(S_Python)>>, <<Experience(Num(0), Num(730))>>, <<>>,
            City(S_Austin), NoSalaryRange)

\* two jobs of equal score, one of a higher score, one without required skills
RankJobs ==
    {JobDoc("A", <<Skill(S_python), Skill(S_aws)>>, Num(2), S_Austin, FALSE, Undefined, "none"),
     JobDoc("B", <<Skill(S_python), Skill(S_aws)>>, Num(2), S_Austin, FALSE, Undefined, "none"),
     JobDoc("C", <<Skill(S_python)>>, Num(2), S_Austin, FALSE, Undefined, "none"),
     JobDoc("N", <<>>, Num(2), S_Boston, TRUE, Undefined, "none")}

\* the lists of distinct jobs a query can give, of length at most n
Catalogs(jobSet, n) ==
    {q \in SeqUpTo(jobSet, n) : \A i, j \in 1..Len(q) : i # j => q[i] # q[j]}

RankPreferences ==
    {DefaultPreferences, [location |-> S_austin, salaryMin |-> Num(115000)]}

InitRank ==
    /\ profile \in {RankProfile, DefaultProfile}
    /\ job = DefaultJob
    /\ dbJobs \in Catalogs(RankJobs, MaxCatalog)
    /\ preferences \in RankPreferences
    /\ options = DefaultOptions
    /\ targetRole = "Frontend Developer"
    /\ gapReport = DefaultGapReport
    /\ courses = <<>>
    /\ now = Today
    /\ InitIdle

NextRank == GetJobRecommendations \/ RecommendJobs

SpecRank == InitRank /\ [][NextRank]_vars

----------------------------------------------------------------------------
(* SpecRepeat: the same call made twice on the same inputs                 *)

RepeatProfiles ==
    {DefaultProfile,
     Profile(<<Skill(S_react)>>, <<Experience(Num(365), Undefined)>>, <<>>,
             NoLocation, NoSalaryRange)}

RepeatJobs ==
    {DefaultJob,
     JobDoc("job", <<Skill(S_React)>>, Num(5), S_Austin, TRUE, Undefined, "undefined")}

InitRepeat ==
    /\ profile \in RepeatProfiles
    /\ job \in RepeatJobs
    /\ dbJobs = <<>>
    /\ preferences \in RankPreferences
    /\ options = DefaultOptions
    /\ targetRole = "Frontend Developer"
    /\ gapReport = DefaultGapReport
    /\ courses = <<>>
    /\ now = Today
    /\ InitIdle

NextRepeat ==
    \/ CalculateMatchScore
    \/ CalculateMatchScoreAgain
    \/ RecommendJobs
    \/ RecommendJobsAgain

SpecRepeat == InitRepeat /\ [][NextRepeat]_vars

----------------------------------------------------------------------------
(* SpecGuide: the roadmap and the starter goals                            *)

MaxCourses == 7

GuideKnown == <<S_react, S_JavaScript, S_css, S_TypeScript>>
GuideSkillLists == {Array([i \in 1..n |-> Skill(GuideKnown[i])]) : n \in 0..Len(GuideKnown)}

\* the two lists of analyzeSkillGaps' answer that the builders read
GapReportOf(sk, r) ==
    [skillGaps |-> Present(SkillGaps(sk, r)),
     prioritySkills |-> Present(Slice(SkillGaps(sk, r), 0, 3))]

\* the gap reports analyzeSkillGaps gives, and one without the two lists
GapReports ==
    {GapReportOf(sk, r) : sk \in GuideSkillLists, r \in Roles}
        \cup {[skillGaps |-> Absent, prioritySkills |-> Absent]}

InitGuide ==
    /\ profile = DefaultProfile
    /\ job = DefaultJob
    /\ dbJobs = <<>>
    /\ preferences = DefaultPreferences
    /\ options = DefaultOptions
    /\ targetRole \in Roles
    /\ gapReport \in GapReports
    /\ \E n \in 0..MaxCourses : courses = Array([i \in 1..n |-> i])
    /\ now \in Today..(Today + ClockSpan)
    /\ InitIdle

NextGuide == BuildRoadmap \/ BuildGoals

SpecGuide == InitGuide /\ [][NextGuide]_vars

----------------------------------------------------------------------------
(* SpecEngine: every operation of the engine, on profiles, jobs,           *)
(* preferences and options of each kind                                    *)

EngineProfiles ==
    {DefaultProfile,
     RankProfile,
     Profile(<<Skill(S_AWS)>>, <<>>, <<Education(S_Bachelor)>>, City(S_Boston),
             SalaryRange(Num(100)))}

EngineJobs ==
    {DefaultJob,
     JobDoc("job", <<Skill(S_aws), Skill(S_React)>>, Num(2), S_Boston, TRUE, Num(120), "master")}

EngineOptions == {[limit |-> l] : l \in {Undefined, Num(0), Num(1), Num(2), Num(5)}}

InitEngine ==
    /\ profile \in EngineProfiles
    /\ job \in EngineJobs
    /\ dbJobs = <<>>
    /\ preferences \in RankPreferences
    /\ options \in EngineOptions
    /\ targetRole \in Roles
    /\ gapReport = DefaultGapReport
    /\ courses = <<>>
    /\ now = Today
    /\ InitIdle

NextEngine ==
    \/ CalculateMatchScore
    \/ GetMissingSkills
    \/ RecommendJobs
    \/ RecommendCourses
    \/ AnalyzeSkillGaps

SpecEngine == InitEngine /\ [][NextEngine]_vars

----------------------------------------------------------------------------
(* SpecCareer: roles with and without a template, set and unset            *)

CareerSkillLists == {<<>>, <<Skill(S_react)>>}
CareerTitles == {Null, "", "Full Stack Developer", "Astronaut"}
CareerHeadlines ==
    {<<>>,
     <<"S","t","u","d","e","n","t">>,
     <<"D","a","t","a"," ","f","a","n">>,
     <<"R","e","t","a","i","l">>,
     <<"F","u","l","l","-","S","t","a","c","k"," ","d","e","v">>}

InitCareer ==
    /\ \/ /\ profile \in {CareerUser(sk, Null, <<>>) : sk \in CareerSkillLists}
          /\ targetRole \in Roles \cup {Null}
       \/ /\ profile \in {CareerUser(sk, ti, hl) : sk \in CareerSkillLists,
                                                   ti \in CareerTitles, hl \in CareerHeadlines}
          /\ targetRole = "Frontend Developer"
    /\ job = DefaultJob
    /\ dbJobs = <<>>
    /\ preferences = DefaultPreferences
    /\ options = DefaultOptions
    /\ gapReport = DefaultGapReport
    /\ courses = <<>>
    /\ now = Today
    /\ InitIdle

NextCareer == AnalyzeSkillGaps \/ GenerateBeginnerCareerGuide

SpecCareer == InitCareer /\ [][NextCareer]_vars

----------------------------------------------------------------------------
(* SpecConcurrent: async calls on different profiles, in flight together   *)

MaxInflight == 2

\* the profiles of the users whose requests are served together: the i-th
\* call in flight is made for the i-th of them
ConcurrentProfiles ==
    << Profile(<<Skill(S_React), Skill(S_JavaScript), Skill(S_CSS)>>, <<>>, <<>>,
               NoLocation, NoSalaryRange),
       Profile(<<Skill(S_AWS), Skill(S_react), Skill(S_JavaScript), Skill(S_TypeScript)>>,
               <<Experience(Num(0), Num(365)), Experience(Num(365), Undefined)>>, <<>>,
               City(S_Austin), NoSalaryRange),
       Profile(<<Skill(S_python), Skill(S_css), Skill(S_React), Skill(S_TypeScript)>>,
               <<>>, <<Education(S_Bachelor)>>, City(S_Boston), NoSalaryRange),
       Profile(<<Skill(S_Java), Skill(S_JavaScript)>>, <<>>, <<>>, NoLocation, NoSalaryRange) >>

AsyncOperations == {"recommendJobs", "recommendCourses", "analyzeSkillGaps"}

InitConcurrent ==
    /\ profile = DefaultProfile
    /\ job = DefaultJob
    /\ dbJobs = <<>>
    /\ preferences = DefaultPreferences
    /\ options = [limit |-> Num(1)]
    /\ targetRole = "Frontend Developer"
    /\ gapReport = DefaultGapReport
    /\ courses = <<>>
    /\ now = Today
    /\ InitIdle

\* a request handler invokes one of the async operations on its user's profile
InvokeAny ==
    /\ Len(inflight) < MaxInflight
    /\ Len(inflight) < Len(ConcurrentProfiles)
    /\ \E op \in AsyncOperations :
           Invoke(op, ConcurrentProfiles[Len(inflight) + 1], preferences, targetRole, options)

NextConcurrent ==
    \/ InvokeAny
    \/ ResumeRecommendJobs
    \/ ResumeRecommendCourses
    \/ ResumeAnalyzeSkillGaps

SpecConcurrent == InitConcurrent /\ [][NextConcurrent]_vars

----------------------------------------------------------------------------
(* SpecPenalty: recommendJobs under location and salary preferences        *)

PenaltyLocations == {<<>>, S_austin, S_Boston, S_remote, <<"C","A">>, <<"T","x">>}
PenaltySalaryMins ==
    {Undefined, Num(0), Num(90000), Num(105000), Num(115000), Num(125000), Num(130000000)}

InitPenalty ==
    /\ profile \in EngineProfiles
    /\ job = DefaultJob
    /\ dbJobs = <<>>
    /\ preferences \in {[location |-> l, salaryMin |-> s] :
                            l \in PenaltyLocations, s \in PenaltySalaryMins}
    /\ options = DefaultOptions
    /\ targetRole = "Frontend Developer"
    /\ gapReport = DefaultGapReport
    /\ courses = <<>>
    /\ now = Today
    /\ InitIdle

NextPenalty == RecommendJobs

SpecPenalty == InitPenalty /\ [][NextPenalty]_vars

----------------------------------------------------------------------------
(* SpecEducation: calculateMatchScore over degree texts and required levels *)

S_AssociateOfArts == <<"A","s","s","o","c","i","a","t","e"," ","o","f"," ","A","r","t","s">>
S_BACHELOR == <<"B","A","C","H","E","L","O","R">>
S_Doctorate == <<"D","o","c","t","o","r","a","t","e">>

EducationDegrees ==
    {S_Diploma, S_AssociateOfArts, S_BACHELOR, S_bachelor, S_Masters, S_PhD, S_Doctorate}
EducationLists ==
    {<<>>} \cup {<<Education(d)>> : d \in EducationDegrees}
           \cup {<<Education(d1), Education(d2)>> : d1, d2 \in EducationDegrees}
MinimumDegrees ==
    {"undefined", "none", "high_school", "associate", "bachelor", "master", "doctorate"}

InitEducation ==
    /\ profile \in {Profile(<<>>, <<Experience(Num(0), Num(730))>>, ed, NoLocation, NoSalaryRange) :
                        ed \in EducationLists}
    /\ job \in {JobDoc("job", <<Skill(S_python)>>, Num(2), S_Austin, FALSE, Undefined, dg) :
                        dg \in MinimumDegrees}
    /\ dbJobs = <<>>
    /\ preferences = DefaultPreferences
    /\ options = DefaultOptions
    /\ targetRole = "Frontend Developer"
    /\ gapReport = DefaultGapReport
    /\ courses = <<>>
    /\ now = Today
    /\ InitIdle

NextEducation == CalculateMatchScore

SpecEducation == InitEducation /\ [][NextEducation]_vars

----------------------------------------------------------------------------
(* SpecCourse: calculateRecommendationScore over courses and profiles      *)

CourseSkillLists == {<<>>, <<Skill(S_React)>>, <<Skill(S_React), Skill(S_AWS)>>}
CourseQualityScores == {Undefined, Num(0), Num(7), Num(10)}
CourseEnrollments == {Num(0), Num(5000), Num(20000)}

InitCourse ==
    /\ profile \in {CareerUser(sk, title, <<>>) :
                        sk \in {<<>>, <<Skill(S_react)>>, <<Skill(S_react), Skill(S_aws)>>},
                        title \in {Null, "Full Stack Developer", "Astronaut"}}
    /\ courseDocument \in {CourseDoc(st, cp, jr, q, en, av, cr) :
                        st \in CourseSkillLists,
                        cp \in {<<>>, <<"Full Stack Developer">>},
                        jr \in {<<>>, <<"Astronaut">>},
                        q \in CourseQualityScores, en \in CourseEnrollments,
                        av \in {Undefined, Num(5)}, cr \in {Undefined, Num(1)}}
    /\ job = DefaultJob
    /\ dbJobs = <<>>
    /\ preferences = DefaultPreferences
    /\ options = DefaultOptions
    /\ targetRole = "Frontend Developer"
    /\ gapReport = DefaultGapReport
    /\ courses = <<>>
    /\ now = Today
    /\ db = EmptyDb
    /\ requests = <<>>
    /\ InitQuiet

NextCourse == CalculateRecommendationScore

SpecCourse == InitCourse /\ [][NextCourse]_vars

----------------------------------------------------------------------------
(* SpecEnroll: enrolment requests in every interleaving                    *)

\* the engine is idle and its inputs are the defaults
InitDefaults ==
    /\ profile = DefaultProfile
    /\ job = DefaultJob
    /\ dbJobs = <<>>
    /\ preferences = DefaultPreferences
    /\ options = DefaultOptions
    /\ targetRole = "Frontend Developer"
    /\ gapReport = DefaultGapReport
    /\ courses = <<>>
    /\ now = Today
    /\ courseDocument = DefaultCourse
    /\ InitQuiet

InitEnroll ==
    /\ InitDefaults
    /\ db = EmptyDb
    /\ requests = <<>>

NextEnroll ==
    \/ \E c \in CourseIds \cup {"c9"}, u \in UserIds \cup {"u9"} : ReceiveEnroll(c, u)
    \/ \E i \in 1..Len(requests) : EnrollFindCourse(i)
    \/ \E i \in 1..Len(requests) : EnrollFindUser(i)
    \/ \E i \in 1..Len(requests) : EnrollSave(i)
    \/ \E i \in 1..Len(requests) : EnrollIncrement(i)

SpecEnroll == InitEnroll /\ [][NextEnroll]_vars

----------------------------------------------------------------------------
(* SpecProgress: progress updates, one request after the other, on users   *)
(* that enrolled                                                           *)

\* the store after the user enrolled in the course (one request, alone)
Enrolled(store, userId, courseId) ==
    [store EXCEPT !.users[userId].learningProgress =
                      SavedProgress(@, NewProgress(courseId)),
                  !.courses[courseId].enrollmentCount = @ + 1]

ProgressValues == {-1, 50, 100, 101}
ProgressStatuses == {Null, "in_progress"}

InitProgress ==
    /\ InitDefaults
    /\ db = Enrolled(Enrolled(Enrolled(EmptyDb, "u1", "c1"), "u1", "c2"), "u2", "c1")
    /\ requests = <<>>

NextProgress ==
    \E c \in CourseIds, u \in UserIds \cup {"u9"},
       p \in ProgressValues, s \in ProgressStatuses : UpdateProgress(c, u, p, s)

SpecProgress == InitProgress /\ [][NextProgress]_vars

----------------------------------------------------------------------------
(* SpecCertification: certification requests, one after the other          *)

InitCertification ==
    /\ InitDefaults
    /\ db = EmptyDb
    /\ requests = <<>>

NextCertification ==
    \/ \E k \in CertificationIds, r \in VerificationResults : SubmitCertification(k, r)
    \/ \E k \in CertificationIds, s \in {"pending", "verified", "failed", "expired"} :
           UpdateCertificationStatus(k, s)
    \/ \E k \in CertificationIds, r \in VerificationResults : ReverifyCertification(k, r)

SpecCertification == InitCertification /\ [][NextCertification]_vars

----------------------------------------------------------------------------
(* Claims                                                                  *)

\* two letters that differ at most in case
SameLetter(c1, c2) ==
    \/ c1 = c2
    \/ \E i \in 1..Len(UpperChars) : {c1, c2} = {UpperChars[i], LowerChars[i]}

\* two names that are the same name up to the case of their letters
SameIgnoringCase(a, b) ==
    /\ Len(a) = Len(b)
    /\ \A i \in 1..Len(a) : SameLetter(a[i], b[i])

\* the profile's skills hold the name, up to case
Held(name, skills) == \E i \in 1..Len(skills) : SameIgnoringCase(skills[i].name, name)

\* how many entries of a list of {name} objects the profile's skills hold
HeldCount(entries, skills) ==
    Cardinality({i \in 1..Len(entries) : Held(entries[i].name, skills)})

Min(a, b) == IF a < b THEN a ELSE b

\* C1: calculateMatchScore returns a number s with 0 <= s <= 100, never NaN,
\* for every profile and job (empty requiredSkills, minimumYears 0, no
\* experience or education entries, a salary range without a min included).
C1_ScoreInRange ==
    call = "calculateMatchScore" =>
        /\ IsFinite(ret)
        /\ JsGe(ret, Num(0))
        /\ JsGe(Num(100), ret)

\* C2: when the job's requiredSkills list is empty, the skills subscore of
\* calculateMatchScore is exactly 1.0, whatever skills the profile holds.
C2_EmptyRequiredFullCredit ==
    (call = "calculateMatchScore" /\ job.requiredSkills = <<>>) =>
        locals.skillsScore = Num(1)

\* C3: in every matcher (calculateMatchScore, getMissingSkills,
\* calculateJobMatchScore, findMissingSkills, analyzeSkillGaps) a required
\* name matches exactly when the profile holds a name equal to it up to the
\* case of its letters; names that differ otherwise never match.
C3_CaseInsensitiveExactMatch ==
    /\ (call = "calculateMatchScore" /\ job.requiredSkills # <<>>) =>
           locals.skillsScore =
               Fin(HeldCount(job.requiredSkills, profile.skills), Len(job.requiredSkills))
    /\ call = "getMissingSkills" =>
           ret = NamesOf(SelectSeq(job.requiredSkills,
                                   LAMBDA r : ~Held(r.name, profile.skills)))
    /\ call = "recommendJobs" =>
           \A k \in 1..Len(ret) :
               LET held == {i \in 1..Len(ret[k].requiredSkills) :
                               Held(ret[k].requiredSkills[i], profile.skills)}
               IN  /\ ret[k].missingSkills =
                          SelectSeq(ret[k].requiredSkills,
                                    LAMBDA r : ~Held(r, profile.skills))
                   /\ (preferences = DefaultPreferences /\ profile.experience = <<>>) =>
                          ret[k].matchScore =
                              Num(60 + ((30 * Cardinality(held))
                                           \div Len(ret[k].requiredSkills)))
    /\ call = "analyzeSkillGaps" =>
           /\ ret.skillGaps = SelectSeq(GetRequiredSkillsForRole(targetRole),
                                        LAMBDA r : ~Held(r.name, profile.skills))
           /\ ret.existingStrengths = SelectSeq(GetRequiredSkillsForRole(targetRole),
                                                LAMBDA r : Held(r.name, profile.skills))

\* C3 witness: "react" and "AWS" in the profile match the requirements
\* "React" and "aws", so getMissingSkills has nothing to report.
C3_Witness ==
    /\ call = "getMissingSkills"
    /\ profile.skills = <<Skill(S_react), Skill(S_AWS)>>
    /\ job.requiredSkills = <<Skill(S_React), Skill(S_aws)>>
    /\ ret = <<>>

\* C4: scoring is deterministic: a second invocation with the same inputs
\* returns what the first returned: the same score from calculateMatchScore,
\* and from recommendJobs the same jobs in the same order with the same
\* matchScore, missingSkills and matchReasons.
C4_Deterministic ==
    /\ (call = "calculateMatchScore" /\ prev.call = "calculateMatchScore") =>
           ret = prev.ret
    /\ (call = "recommendJobs" /\ prev.call = "recommendJobs") =>
           /\ Len(ret) = Len(prev.ret)
           /\ \A i \in 1..Len(ret) :
                  /\ ret[i].title = prev.ret[i].title
                  /\ ret[i].matchScore = prev.ret[i].matchScore
                  /\ ret[i].missingSkills = prev.ret[i].missingSkills
                  /\ ret[i].matchReasons = prev.ret[i].matchReasons

\* C5: the ranked list is sorted descending: in what recommendJobs returns and
\* in the jobs array of the /jobs/recommendations route every element's
\* matchScore is >= the matchScore of the element that follows it.
C5_SortedDescending ==
    call \in {"recommendJobs", "getJobRecommendations"} =>
        \A i \in 1..(Len(ret) - 1) : JsGe(ret[i].matchScore, ret[i + 1].matchScore)

\* the place of an output entry in the input the call ranked
InputIndex(entry) ==
    IF call = "recommendJobs"
    THEN CHOOSE i \in 1..Len(DUMMY_JOBS) : DUMMY_JOBS[i].title = entry.title
    ELSE CHOOSE i \in 1..Len(dbJobs) : dbJobs[i].id = entry.id

\* C6: ranking is stable: two jobs with equal matchScore appear in the output
\* of recommendJobs and of the route in the order they had in the input.
C6_StableRanking ==
    call \in {"recommendJobs", "getJobRecommendations"} =>
        \A i, j \in 1..Len(ret) :
            (i < j /\ ret[i].matchScore = ret[j].matchScore /\ ~IsNaN(ret[i].matchScore))
                => InputIndex(ret[i]) < InputIndex(ret[j])

\* C7: analyzeSkillGaps returns overallReadiness = max(0, 100 - 15 * N) with
\* N the number of entries of skillGaps; so readiness is within 0..100.
C7_ReadinessFormula ==
    call = "analyzeSkillGaps" =>
        LET n == Len(ret.skillGaps)
        IN  /\ ret.overallReadiness = (IF 100 - 15 * n > 0 THEN 100 - 15 * n ELSE 0)
            /\ ret.overallReadiness \in 0..100

\* C7 witness: every entry of the template is a gap, readiness is 40.
C7_Witness ==
    /\ call = "analyzeSkillGaps"
    /\ Len(ret.skillGaps) = 4
    /\ ret.overallReadiness = 40

\* C8: analyzeSkillGaps partitions the role template: each entry is in exactly
\* one of skillGaps (name not held, up to case) and existingStrengths (held),
\* both in template order, and prioritySkills is the first min(3, |skillGaps|)
\* entries of skillGaps.
C8_TemplatePartition ==
    call = "analyzeSkillGaps" =>
        LET template == GetRequiredSkillsForRole(targetRole)
        IN  /\ ret.skillGaps =
                   SelectSeq(template, LAMBDA r : ~Held(r.name, profile.skills))
            /\ ret.existingStrengths =
                   SelectSeq(template, LAMBDA r : Held(r.name, profile.skills))
            /\ \A i \in 1..Len(template) :
                   ArrIncludes(ret.skillGaps, template[i])
                       # ArrIncludes(ret.existingStrengths, template[i])
            /\ Len(ret.skillGaps) + Len(ret.existingStrengths) = Len(template)
            /\ ret.prioritySkills = SubSeq(ret.skillGaps, 1, Min(3, Len(ret.skillGaps)))

\* C8 witness: profile [react] against the Frontend Developer template gives
\* gaps [JavaScript, CSS, TypeScript], strengths [React], readiness 55.
C8_Witness ==
    /\ call = "analyzeSkillGaps"
    /\ targetRole = "Frontend Developer"
    /\ profile.skills = <<Skill(S_react)>>
    /\ NamesOf(ret.skillGaps) = <<S_JavaScript, S_CSS, S_TypeScript>>
    /\ NamesOf(ret.existingStrengths) = <<S_React>>
    /\ NamesOf(ret.prioritySkills) = <<S_JavaScript, S_CSS, S_TypeScript>>
    /\ ret.overallReadiness = 55

\* C9: buildBeginnerRoadmap returns exactly 3 phases in the order foundation,
\* projects, job readiness; buildStarterGoals returns exactly 2 goals, a
\* 'learning' goal due 21 days and a 'project' goal due 30 days after the
\* call, both strictly after the time of the call.
C9_ThreePhasesTwoGoals ==
    /\ call = "buildBeginnerRoadmap" =>
           /\ Len(ret) = 3
           /\ ret[1].phase = "Foundation (Weeks 1-4)"
           /\ ret[2].phase = "Projects (Weeks 5-8)"
           /\ ret[3].phase = "Job Readiness (Weeks 9-12)"
    /\ call = "buildStarterGoals" =>
           /\ Len(ret) = 2
           /\ ret[1].category = "learning"
           /\ ret[2].category = "project"
           /\ ret[1].targetDate = now + 21
           /\ ret[2].targetDate = now + 30
           /\ \A i \in 1..Len(ret) : ret[i].targetDate > now

\* C9 witness: goals built from a gap report without its lists, a day on.
C9_Witness ==
    /\ call = "buildStarterGoals"
    /\ now = Today + 1
    /\ ~gapReport.skillGaps.present
    /\ ret[1].targetDate = Today + 22
    /\ ret[2].targetDate = Today + 31

\* C10: with a non-empty requiredSkills list the skills subscore is (required
\* skills held by the profile, up to case) / (required skills), and
\* getMissingSkills returns exactly the required names the profile does not
\* hold, in required-list order; so matched + missing = required.
C10_SkillsRatioAndMissing ==
    /\ (call = "calculateMatchScore" /\ job.requiredSkills # <<>>) =>
           /\ locals.skillsScore =
                  JsDiv(Num(HeldCount(job.requiredSkills, profile.skills)),
                        Num(Len(job.requiredSkills)))
    /\ call = "getMissingSkills" =>
           /\ \A i \in 1..Len(ret) : ~Held(ret[i], profile.skills)
           /\ ret = NamesOf(SelectSeq(job.requiredSkills,
                                      LAMBDA r : ~ArrIncludes(
                                          NamesOf(SelectSeq(job.requiredSkills,
                                              LAMBDA q : Held(q.name, profile.skills))),
                                          r.name)))
           /\ Len(ret) + HeldCount(job.requiredSkills, profile.skills)
                  = Len(job.requiredSkills)

\* C10 witness: required [python, aws], profile [python]: subscore 0.5.
C10_Witness ==
    /\ call = "calculateMatchScore"
    /\ job.requiredSkills = <<Skill(S_python), Skill(S_aws)>>
    /\ profile.skills = <<Skill(S_python)>>
    /\ locals.skillsScore = Fin(1, 2)

\* C11: when the job's location.isRemote is true the location subscore of
\* calculateMatchScore is 1.0, whatever the profile's city and the job's city.
C11_RemoteBypassesLocation ==
    (call = "calculateMatchScore" /\ job.location.isRemote) =>
        locals.locationScore = Num(1)

\* C11 witness: a remote job in Boston scored for a profile located in austin.
C11_Witness ==
    /\ call = "calculateMatchScore"
    /\ job.location.isRemote
    /\ job.location.city = S_Boston
    /\ profile.location = City(S_austin)
    /\ locals.locationScore = Num(1)

\* C12: the engine never mutates its inputs: over every step in which
\* calculateMatchScore, getMissingSkills, recommendJobs, recommendCourses or
\* analyzeSkillGaps returns, the profile, the job, the preferences and options
\* and the module-level catalogs DUMMY_JOBS and DUMMY_COURSES stay as they were
\* (same elements, same order, same field values).
C12_InputsNotMutated ==
    [][/\ profile' = profile
       /\ job' = job
       /\ preferences' = preferences
       /\ options' = options
       /\ catalog' = catalog
       /\ catalog'.jobs = DUMMY_JOBS
       /\ catalog'.courses = DUMMY_COURSES]_vars

\* C12 witness: recommendJobs has returned the jobs in another order than the
\* catalog's (the DevOps job first, for a profile with AWS), and the catalog
\* is in its own order with its own matchScore fields.
C12_Witness ==
    /\ call = "recommendJobs"
    /\ ret[1].title = "DevOps Engineer"
    /\ ret[1].matchScore = Num(70)
    /\ catalog.jobs = DUMMY_JOBS
    /\ catalog.jobs[1].title = "Senior Frontend Developer"
    /\ catalog.jobs[3].matchScore = Num(85)

\* the names of a list of template entries, as a set
NameSet(entries) == {entries[i].name : i \in 1..Len(entries)}

\* a headline in which inferTargetRoleFromInterests recognises no interest
Unrecognisable(headline) ==
    \A keyword \in {<<"d","a","t","a">>, <<"d","e","v","o","p","s">>,
                    <<"b","a","c","k","e","n","d">>,
                    <<"f","u","l","l"," ","s","t","a","c","k">>,
                    <<"f","u","l","l","-","s","t","a","c","k">>,
                    <<"a","i">>, <<"m","l">>} :
        \A i \in 0..(Len(headline) - Len(keyword)) :
            \E j \in 1..Len(keyword) : ~SameLetter(headline[i + j], keyword[j])

C14_AbsentConstraintsSatisfied ==
    call = "calculateMatchScore" =>
        /\ job.salary.min = Undefined => locals.salaryScore = Num(1)
        /\ job.educationRequirements.minimumDegree = "undefined" =>
               locals.educationScore = Num(1)
        /\ ~profile.location.present => locals.locationScore = Num(1)

\* value is what the call c may return when it is the only call made
AloneResult(c, value) ==
    CASE c.op = "recommendJobs" ->
             \E r \in RecommendJobsCall(DUMMY_JOBS, c.profile, c.preferences) :
                 r.out = value
      [] c.op = "recommendCourses" ->
             \E r \in RecommendCoursesCall(DUMMY_COURSES, c.profile.skills, c.options) :
                 r.out = value
      [] c.op = "analyzeSkillGaps" ->
             \E draws \in [1..Len(SkillGaps(c.profile.skills, c.targetRole))
                               -> RandomSamples] :
                 SkillGapAnalysis(c.profile.skills, c.targetRole, draws) = value

\* C15: concurrent invocations need no coordination: in every interleaving of
\* in-flight calls of recommendJobs, recommendCourses and analyzeSkillGaps,
\* what each call returns is a result the call gives when run alone, and no
\* call has written the state the others read (the module-level catalogs).
C15_ConcurrentCallsIndependent ==
    /\ catalog = InitialCatalog
    /\ \A i \in 1..Len(inflight) :
           inflight[i].pc = "returned" => AloneResult(inflight[i], inflight[i].ret)

\* C15 witness: two calls in flight together on different profiles; the one
\* invoked second has returned its ranking while the first is still suspended.
C15_Witness ==
    /\ Len(inflight) = 2
    /\ inflight[1].profile # inflight[2].profile
    /\ inflight[1].op = "recommendCourses"
    /\ inflight[1].pc = "awaiting"
    /\ inflight[2].op = "recommendJobs"
    /\ inflight[2].pc = "returned"
    /\ inflight[2].ret[1].title = "Senior Frontend Developer"
    /\ inflight[2].ret[1].matchScore = Num(100)

\* sub occurs in s, up to the case of the letters
ContainsIgnoringCase(s, sub) ==
    \E i \in 0..(Len(s) - Len(sub)) : \A j \in 1..Len(sub) : SameLetter(s[i + j], sub[j])

\* the base score of a returned job: the value of calculateJobMatchScore
BaseScore(entry) == CalculateJobMatchScore(entry, profile.skills, profile.experience)

\* the job is on site and outside the preferred location
OutsidePreferredLocation(entry) ==
    /\ preferences.location # <<>>
    /\ ~ContainsIgnoringCase(entry.location, S_remote)
    /\ ~ContainsIgnoringCase(entry.location, preferences.location)

\* C16: in recommendJobs a non-remote job whose location does not contain the
\* preferred location (case-insensitively) loses a flat 15 of its base score;
\* remote jobs, jobs inside the preferred location and, with no location
\* preference, all jobs lose nothing for location (the salary preference may
\* take 10 more, or nothing).
C16_LocationPenalty ==
    call = "recommendJobs" =>
        \A k \in 1..Len(ret) :
            LET lost == BaseScore(ret[k]).n - ret[k].matchScore.n
            IN  /\ IsFinite(ret[k].matchScore)
                /\ OutsidePreferredLocation(ret[k]) => lost \in {15, 25}
                /\ ~OutsidePreferredLocation(ret[k]) => lost \in {0, 10}
                /\ ~Truthy(preferences.salaryMin) => lost \in {0, 15}

\* C16 witness: with the preference 'austin' and no salary preference the
\* Austin job and the remote job keep their base score 60, the San Francisco
\* job has 45.
C16_Witness ==
    /\ call = "recommendJobs"
    /\ preferences = [location |-> S_austin, salaryMin |-> Undefined]
    /\ profile = DefaultProfile
    /\ \E a, r, s \in 1..Len(ret) :
           /\ ret[a].location = S_AustinTX /\ ret[a].matchScore = Num(60)
           /\ ret[r].location = S_Remote /\ ret[r].matchScore = Num(60)
           /\ ret[s].location = S_SanFranciscoCA /\ ret[s].matchScore = Num(45)

\* the lower bound of a salary band as an amount: the digits of the text
\* before the first space, '$100,000 - $130,000' giving 100000
BandMinimum(salary) ==
    LET spaces == {i \in 1..Len(salary) : salary[i] = " "}
        stop == IF spaces = {} THEN Len(salary) + 1
                ELSE CHOOSE x \in spaces : \A y \in spaces : x <= y
    IN  ParseDigits(SelectSeq(SubSeq(salary, 1, stop - 1), IsDigit))

\* the job's minimum salary is below the salary floor of the preferences
BelowSalaryMin(entry) ==
    /\ Truthy(preferences.salaryMin)
    /\ BandMinimum(entry.salary) < preferences.salaryMin.n

\* a difference floored at 0
Floored(x) == IF x < 0 THEN 0 ELSE x

\* a score lowered by a flat penalty where it applies, floored at 0
Penalised(score, applies, penalty) == IF applies THEN Floored(score - penalty) ELSE score

\* C17: when preferences.salaryMin is given, recommendJobs lowers by a flat 10
\* (floored at 0) the score of every job whose minimum salary is below
\* salaryMin and leaves the score of every other job to the base score and
\* the location penalty.
C17_SalaryPenalty ==
    (call = "recommendJobs" /\ Truthy(preferences.salaryMin)) =>
        \A k \in 1..Len(ret) :
            ret[k].matchScore =
                Num(Penalised(Penalised(BaseScore(ret[k]).n, OutsidePreferredLocation(ret[k]), 15),
                              BelowSalaryMin(ret[k]), 10))

\* C18: every returned job has adjusted = max(0, base - 15 [location penalty
\* applies] - 10 [salary penalty applies]) with 0 <= adjusted <= base <= 100,
\* base being the value of calculateJobMatchScore.
C18_PenaltiesAdditiveInRange ==
    call = "recommendJobs" =>
        \A k \in 1..Len(ret) :
            LET base == BaseScore(ret[k]).n
                adjusted == ret[k].matchScore
            IN  /\ IsFinite(adjusted)
                /\ adjusted.n = Floored(base - (IF OutsidePreferredLocation(ret[k]) THEN 15 ELSE 0)
                                             - (IF BelowSalaryMin(ret[k]) THEN 10 ELSE 0))
                /\ 0 <= adjusted.n /\ adjusted.n <= base /\ base <= 100

\* the limit a caller of recommendCourses asked for: 10 when none is given
RequestedLimit == IF options.limit = Undefined THEN 10 ELSE options.limit.n

\* the list is in descending order of relevanceScore
DescendingByRelevance(list) ==
    \A i, j \in 1..Len(list) :
        i < j => ~NumLess(list[i].relevanceScore, list[j].relevanceScore)

\* C19: recommendCourses returns at most options.limit courses (10 when no
\* limit is given), and they are exactly the first entries of the full list
\* of courses sorted in descending order of relevanceScore.
C19_CourseLimit ==
    call = "recommendCourses" =>
        /\ Len(ret) <= RequestedLimit
        /\ Len(locals.recommendations) = Len(DUMMY_COURSES)
        /\ DescendingByRelevance(locals.recommendations)
        /\ ret = SubSeq(locals.recommendations, 1, Len(ret))

\* the profile states no desired minimum salary
NoDesiredMinimum == ~profile.desiredSalaryRange.present \/ profile.desiredSalaryRange.min = Undefined

\* C20: the salary subscore of calculateMatchScore is 1.0 when the profile has
\* no desired minimum salary; otherwise it is 1.0 when the job's minimum
\* salary is at least the desired minimum, and the ratio job minimum / desired
\* minimum, a value in [0, 1), when it is below.
C20_SalarySubscore ==
    call = "calculateMatchScore" =>
        /\ NoDesiredMinimum => locals.salaryScore = Num(1)
        /\ (~NoDesiredMinimum /\ job.salary.min # Undefined) =>
               LET jobMin == job.salary.min.n
                   userMin == profile.desiredSalaryRange.min.n
               IN  IF jobMin >= userMin
                   THEN locals.salaryScore = Num(1)
                   ELSE /\ locals.salaryScore = Fin(jobMin, userMin)
                        /\ ~NumLess(locals.salaryScore, Num(0))
                        /\ NumLess(locals.salaryScore, Num(1))

\* the two texts are equal up to the case of their letters
EqualIgnoringCase(s, t) ==
    Len(s) = Len(t) /\ \A i \in 1..Len(s) : SameLetter(s[i], t[i])

\* C21: for a non-remote job and a profile with a location, the location
\* subscore of calculateMatchScore is 1.0 when the profile's city equals the
\* job's city compared case-insensitively ('austin' and 'Austin'), and 0.3
\* otherwise; it is never 0.
C21_CityComparedIgnoringCase ==
    (call = "calculateMatchScore" /\ ~job.location.isRemote
        /\ profile.location.present /\ profile.location.city # <<>>) =>
        /\ locals.locationScore =
               (IF EqualIgnoringCase(profile.location.city, job.location.city)
                THEN Num(1) ELSE Fin(3, 10))
        /\ locals.locationScore # Num(0)

\* T in days: the sum over the experience entries of (endDate or now) - startDate
RECURSIVE TenureDays(_, _)
TenureDays(experience, t) ==
    IF experience = <<>> THEN 0
    ELSE LET e == Head(experience)
         IN  (IF e.endDate = Undefined THEN t ELSE e.endDate.n) - e.startDate.n
                 + TenureDays(Tail(experience), t)

\* C22: the experience subscore of calculateMatchScore is min(T / minimumYears,
\* 1.0), T being the summed tenure in years; when minimumYears is 0 or absent
\* it is 1.0 for every profile, a profile with no experience entries included.
C22_ExperienceSubscore ==
    call = "calculateMatchScore" =>
        LET days == TenureDays(profile.experience, now)
            minimumYears == job.experienceRequirements.minimumYears
        IN  IF minimumYears = Undefined \/ minimumYears = Num(0)
            THEN locals.experienceScore = Num(1)
            ELSE locals.experienceScore =
                     (IF days >= DaysPerYear * minimumYears.n THEN Num(1)
                      ELSE Fin(days, DaysPerYear * minimumYears.n))

\* the rank of one degree text: the highest rank whose pattern occurs in it,
\* up to case, and 1 when none does
DegreeRank(degree) ==
    LET found == {1}
            \cup (IF ContainsIgnoringCase(degree, S_associate) THEN {2} ELSE {})
            \cup (IF ContainsIgnoringCase(degree, S_bachelor) THEN {3} ELSE {})
            \cup (IF ContainsIgnoringCase(degree, S_master) THEN {4} ELSE {})
            \cup (IF ContainsIgnoringCase(degree, S_phd)
                     \/ ContainsIgnoringCase(degree, S_doctorate) THEN {5} ELSE {})
    IN  CHOOSE r \in found : \A x \in found : x <= r

\* the profile's education level: the highest rank over its entries, 0 with none
ProfileEducationLevel ==
    LET ranks == {0} \cup {DegreeRank(profile.education[i].degree) :
                               i \in 1..Len(profile.education)}
    IN  CHOOSE r \in ranks : \A x \in ranks : x <= r

\* the rank of the job's minimumDegree
RequiredRank ==
    LET d == job.educationRequirements.minimumDegree
    IN  IF d = "doctorate" THEN 5 ELSE IF d = "master" THEN 4
        ELSE IF d = "bachelor" THEN 3 ELSE IF d = "associate" THEN 2
        ELSE IF d = "high_school" THEN 1 ELSE 0

WeightedPercent(sk, ex, lo, sa, ed) ==
    JsAdd(JsAdd(JsAdd(JsAdd(JsMul(Num(35), sk), JsMul(Num(25), ex)),
                      JsMul(Num(15), lo)), JsMul(Num(15), sa)), JsMul(Num(10), ed))

\* subscore values a subscore may be raised to
RaisedValues == {Fin(3, 10), Fin(1, 2), Fin(4, 5), Num(1)}

\* the subscore tuples that raise one subscore of l and keep the others
RaisedOnce(l) ==
    {<<v, l.experienceScore, l.locationScore, l.salaryScore, l.educationScore>> :
         v \in {r \in RaisedValues : NumLess(l.skillsScore, r)}}
    \cup {<<l.skillsScore, v, l.locationScore, l.salaryScore, l.educationScore>> :
         v \in {r \in RaisedValues : NumLess(l.experienceScore, r)}}
    \cup {<<l.skillsScore, l.experienceScore, v, l.salaryScore, l.educationScore>> :
         v \in {r \in RaisedValues : NumLess(l.locationScore, r)}}
    \cup {<<l.skillsScore, l.experienceScore, l.locationScore, v, l.educationScore>> :
         v \in {r \in RaisedValues : NumLess(l.salaryScore, r)}}
    \cup {<<l.skillsScore, l.experienceScore, l.locationScore, l.salaryScore, v>> :
         v \in {r \in RaisedValues : NumLess(l.educationScore, r)}}

\* all five subscores of the call are numbers
AllSubscoresFinite ==
    /\ IsFinite(locals.skillsScore) /\ IsFinite(locals.experienceScore)
    /\ IsFinite(locals.locationScore) /\ IsFinite(locals.salaryScore)
    /\ IsFinite(locals.educationScore)

\* the score where all five subscores are 1 is 100, and raising one subscore
\* with the others fixed never lowers the score
C24_FullAndMonotone ==
    (call = "calculateMatchScore" /\ AllSubscoresFinite) =>
        /\ (\A f \in DOMAIN locals : locals[f] = Num(1)) => ret = Num(100)
        /\ \A t \in RaisedOnce(locals) :
               ~NumLess(RoundedScore(t[1], t[2], t[3], t[4], t[5]), ret)

\* C24: the job score is round(100 * (0.35 skills + 0.25 experience +
\* 0.15 location + 0.15 salary + 0.10 education)), the weights summing to 1;
\* hence full satisfaction of all five factors scores exactly 100 and raising
\* one subscore with the others fixed never lowers the score.
C24_WeightedScore ==
    (call = "calculateMatchScore" /\ AllSubscoresFinite) =>
        /\ JsAdd(JsAdd(JsAdd(JsAdd(WeightSkills, WeightExperience), WeightLocation),
                       WeightSalary), WeightEducation) = Num(1)
        /\ ret = MathRound(WeightedPercent(locals.skillsScore, locals.experienceScore,
                                           locals.locationScore, locals.salaryScore,
                                           locals.educationScore))
        /\ C24_FullAndMonotone

\* the share of the taught skills the profile names, up to case
TaughtSkillsMatched ==
    Cardinality({i \in 1..Len(courseDocument.skillsTaught) :
                    \E j \in 1..Len(profile.skills) :
                        EqualIgnoringCase(profile.skills[j].name, courseDocument.skillsTaught[i].name)})

\* the target job title is one of the course's career paths or job roles
TargetsCareer ==
    \E i \in 1..Len(courseDocument.careerPaths \o courseDocument.jobRoles) :
        (courseDocument.careerPaths \o courseDocument.jobRoles)[i] = profile.targetJobTitle

\* C25: calculateRecommendationScore returns 0.4 (taught skills matched /
\* taught skills) + 0.3 [targetJobTitle in careerPaths or jobRoles] +
\* 0.2 (qualityScore / 10) + 0.1 popularityScore, and for every course with
\* qualityScore in 0..10 and popularityScore in 0..1, a course with no taught
\* skills or no qualityScore included, the result is a number in [0, 1].
C25_RecommendationScore ==
    call = "calculateRecommendationScore" =>
        /\ IsFinite(ret) /\ ~NumLess(ret, Num(0)) /\ ~NumLess(Num(1), ret)
        /\ (courseDocument.skillsTaught # <<>> /\ courseDocument.qualityScore # Undefined) =>
               ret = JsAdd(JsAdd(JsAdd(Fin(4 * TaughtSkillsMatched,
                                           10 * Len(courseDocument.skillsTaught)),
                                       IF TargetsCareer THEN Fin(3, 10) ELSE Num(0)),
                                 Fin(2 * courseDocument.qualityScore.n, 100)),
                           JsMul(Fin(1, 10), locals.popularityScore))

\* the smaller of two numbers
Smaller(a, b) == IF a < b THEN a ELSE b

\* the names of the first min(k, n) entries of a list of n skills
FirstNames(list, k) ==
    [i \in 1..Smaller(k, Len(list)) |-> list[i].name]

CoursesOfPhase(k) ==
    LET first == 2 * (k - 1) + 1
        last == Smaller(2 * k, Len(courses))
    IN  [i \in 1..(IF last < first THEN 0 ELSE last - first + 1) |-> courses[first + i - 1]]

EntriesFor(u, c) ==
    Cardinality({i \in 1..Len(db.users[u].learningProgress) :
                    db.users[u].learningProgress[i].courseId = c})

\* the sum of the values of the function f over the set S
RECURSIVE SumOver(_, _)
SumOver(S, f) ==
    IF S = {} THEN 0
    ELSE LET x == CHOOSE y \in S : TRUE IN f[x] + SumOver(S \ {x}, f)

\* every request received has responded
AllResponded == \A i \in 1..Len(requests) : requests[i].pc = "done"

\* C28: after any interleaving of enrolment requests a user's learningProgress
\* holds at most one entry per course, of the requests for one user and course
\* exactly the first is accepted and the others are rejected with 400, and a
\* course's enrollmentCount is the number of entries added for it.
C28_NeverEnrolledTwice ==
    /\ \A u \in UserIds, c \in CourseIds : EntriesFor(u, c) <= 1
    /\ AllResponded =>
           /\ \A i, j \in 1..Len(requests) :
                  (i # j /\ requests[i].userId = requests[j].userId
                         /\ requests[i].courseId = requests[j].courseId
                         /\ requests[i].status = 200) => requests[j].status = 400
           /\ \A c \in CourseIds :
                  db.courses[c].enrollmentCount =
                      SumOver(UserIds, [u \in UserIds |-> EntriesFor(u, c)])

\* the number of the user's entries whose status is 'completed'
CompletedEntries(u) ==
    Cardinality({i \in 1..Len(db.users[u].learningProgress) :
                    db.users[u].learningProgress[i].status = "completed"})

\* the users who completed the course
Completers(c) ==
    {u \in UserIds : \E i \in 1..Len(db.users[u].learningProgress) :
                         /\ db.users[u].learningProgress[i].courseId = c
                         /\ db.users[u].learningProgress[i].status = "completed"}

\* C29: after any sequence of progress updates a user's
\* analytics.courseCompletions is the number of the user's entries with status
\* 'completed' and a course's completions counter is the number of users who
\* completed it; a request with progress outside 0..100 is answered 400 and
\* changes nothing.
C29_CompletionCountersConsistent ==
    /\ [](\A u \in UserIds : db.users[u].courseCompletions = CompletedEntries(u))
    /\ [](\A c \in CourseIds : db.courses[c].completions = Cardinality(Completers(c)))
    /\ [][(call' = "updateProgress" /\ (locals'.progress < 0 \/ locals'.progress > 100))
              => (ret'.status = 400 /\ db' = db)]_vars

\* C30: after any sequence of certification operations a certification's id
\* is in its owner's verifiedCertifications exactly when the certification's
\* verificationStatus is 'verified'.
C30_VerifiedSetMatchesStatus ==
    \A k \in CertificationIds :
        (k \in db.users[CertificationOwner].verifiedCertifications)
            <=> (db.certifications[k].verificationStatus = "verified")

====
